---- MODULE Spec2Model ----
(***************************************************************************)
(* Client-side video normalization and upload hand-off of smoke-show-swing *)
(*                                                                         *)
(*   src/src/lib/videoProcessor.ts (current version, lines 154-271):       *)
(*     initFFmpeg, detectAndConvertVideo, isWebAssemblySupported,          *)
(*     processVideoFile, and the module globals ffmpeg/ffmpegInitialized.  *)
(*   src/src/app/page.tsx: handleFileSelect (validate, normalize, upload,  *)
(*     availability poll, POST /api/analyze) and reset.                    *)
(*   src/src/app/api/upload/route.ts: the constraints onBeforeGenerateToken *)
(*     puts on a client upload.                                            *)
(*   src/src/lib/videoProcessor.ts (earlier version, lines 1-152):         *)
(*     isLikelyHevc and the blob-URL initFFmpeg.                           *)
(*                                                                         *)
(* Every await of the code is a suspension point: the awaited operation    *)
(* takes effect and the continuation runs up to the next await in one      *)
(* action.  The 30 s deadline timer of processVideoFile is a macrotask     *)
(* that may fire at any moment while the race is unsettled.                *)
(***************************************************************************)
EXTENDS Integers, Sequences, FiniteSets, TLC

\* Number of processVideoFile calls explored, and of handleFileSelect runs of
\* the page among them.
MaxCalls == 2
MaxJourneys == 1
\* Number of isLikelyHevc calls and of initFFmpeg calls explored.
MaxSniffs == 2
MaxInitCalls == 3
MaxPolls == 61

\* page.tsx:78 and page.tsx:106,120
MaxUploadBytes == 52428800
PollAttempts == 30
PollIntervalMs == 1000

Calls == 1..MaxCalls

\* A File: name as its "."-separated parts, declared MIME type as its
\* "/"-separated parts, byte size.
Files ==
  { [name |-> <<"swing", "mov">>, type |-> <<"video", "quicktime">>,
     size |-> 10485760],
    [name |-> <<"notes", "txt">>, type |-> <<"text", "plain">>,
     size |-> 1024],
    [name |-> <<"long", "mov">>, type |-> <<"video", "quicktime">>,
     size |-> 52428801] }

\* Videos of other containers, for calls of the transcoder on its own.
OtherVideoFiles ==
  { [name |-> <<"clip", "mp4">>, type |-> <<"video", "mp4">>, size |-> 2097152],
    [name |-> <<"clip", "webm">>, type |-> <<"video", "webm">>,
     size |-> 2097152] }

NoFileSelected == [name |-> <<>>, type |-> <<>>, size |-> 0]

\* file.name.split(".").pop()
Ext(f) == f.name[Len(f.name)]

\* `input.${file.name.split(".").pop()}` and "output.mp4"
InputName(f) == "input." \o Ext(f)
OutputName == "output.mp4"

ScratchNames == {InputName(f) : f \in Files \cup OtherVideoFiles} \cup {OutputName}

\* Content of a scratch file or blob: src = the call whose bytes it carries,
\* by = the call whose writeFile / exec produced it, late = produced by an
\* exec that returned after its caller's deadline had fired.  Absent = NoData.
NoData == [src |-> 0, by |-> 0, late |-> FALSE]

\* HTTP statuses a poll of the blob URL may return.
Statuses == {199, 200, 206, 299, 300, 404, 500}

\* What an awaited operation may throw: an Error with its message, or a value
\* that is not an Error (text = String(value)).
Throwables ==
  { [isError |-> TRUE, text |-> "operation failed"],
    [isError |-> FALSE, text |-> "aborted"] }

NoError == [message |-> "", thrown |-> [isError |-> FALSE, text |-> ""]]

VARIABLES
  wasmSupported,      \* environment: typeof WebAssembly === "object" && ...
  ffmpeg,             \* module global: 0 = null, else the instance id
  ffmpegInitialized,  \* module global
  nInstances,         \* number of `new FFmpeg()` executed so far
  fs,                 \* fs[instance][name]: the instance's virtual filesystem
  nCalls,             \* number of processVideoFile calls made so far
  file,               \* file[c]: argument of call c
  pvf,                \* processVideoFile(c): "idle" | "racing" | "done"
  result,             \* what processVideoFile(c) resolved with
  conv,               \* detectAndConvertVideo(c): the await it is suspended at
  inst,               \* local `instance` of detectAndConvertVideo(c)
  outBlob,            \* local `outputBlob` of detectAndConvertVideo(c)
  timedOut,           \* history: the deadline timer settled the race of c
  wrote,              \* history: writeFile of call c succeeded
  delTried,           \* history: the deleteFile calls c has issued
  err,                \* what detectAndConvertVideo(c) rejected with
  loaded,             \* history: the instances whose load() has resolved
  state,              \* page: AnalysisState
  analysis,           \* page: analysis result shown
  error,              \* page: error message shown
  videoPreview,       \* page: preview URL (0 = null, else the journey's call)
  cur,                \* the running handleFileSelect's call id (0 = none)
  jpc,                \* handleFileSelect: the await it is suspended at
  i,                  \* loop variable of the availability poll
  blobAccessible,     \* local of handleFileSelect
  clock,              \* ms slept by handleFileSelect in this journey
  pollAt,             \* history: clock value at each poll request
  confirmed,          \* history: a poll of this journey answered 200..299
  analyzePosts,       \* history: POSTs to /api/analyze in this journey
  processedFile,      \* local `processedFile` of handleFileSelect
  token,              \* what /api/upload authorized for this journey's upload
  bytesSent,          \* history: bytes of the asset went to object storage
  uploads,            \* history: upload() calls made in this journey
  sniffFile,          \* argument of isLikelyHevc
  verdict,            \* what the last isLikelyHevc(sniffFile) call returned
  nSniffs,            \* number of isLikelyHevc calls made
  sess,               \* sess[v]: the module globals under initFFmpeg variant v
  ret,                \* ret[v]: outcomes of the initFFmpeg calls of variant v
  env,                \* server: which credentials process.env holds
  req,                \* server: body of the POST to /api/analyze
  buf,                \* server: first bytes of what videoUrl serves
  apc,                \* server POST: the await it is suspended at
  tempFilePath,       \* server POST: local (FALSE = null)
  blobUrl,            \* server POST: local (FALSE = null)
  geminiFile,         \* server POST: state of the local geminiFile
  processingAttempts, \* server POST: local
  retryCount,         \* server POST: local
  attempt,            \* server POST, earlier version: download attempt
  response,           \* server POST: what the handler returns
  did,                \* server history: the external calls made so far
  early               \* a processVideoFile call of an earlier version

procVars == <<wasmSupported, ffmpeg, ffmpegInitialized, nInstances, fs, nCalls,
              file, pvf, result, conv, inst, outBlob, timedOut, wrote,
              delTried, err, loaded>>
pageVars == <<state, analysis, error, videoPreview, cur, jpc, i,
              blobAccessible, clock, pollAt, confirmed, analyzePosts,
              processedFile, token, bytesSent, uploads>>
uploadVars == <<processedFile, token, bytesSent, uploads>>
sniffVars == <<sniffFile, verdict, nSniffs>>
initVars == <<sess, ret>>
srvVars == <<env, req, buf, apc, tempFilePath, blobUrl, geminiFile,
             processingAttempts, retryCount, attempt, response, did>>
earlyVars == <<early>>
auxVars == <<sniffVars, initVars, srvVars, earlyVars>>
vars == <<procVars, pageVars, auxVars>>

EmptyFs == [n \in ScratchNames |-> NoData]

\* No client token issued.
NoToken == [allowedContentTypes |-> {}, maximumSizeInBytes |-> 0]

\* The two initFFmpeg variants of videoProcessor.ts.
Variants == {"blobURL", "directURL"}

\* No isLikelyHevc call and no initFFmpeg call under observation.
SniffIdle == verdict = FALSE /\ nSniffs = 0
InitIdle ==
  /\ sess = [v \in Variants |-> [ffmpeg |-> 0, ffmpegInitialized |-> FALSE]]
  /\ ret = [v \in Variants |-> <<>>]

\* No processVideoFile call of an earlier version under observation.
EarlyVersions == {"videoProcessor.ts:1-152", "part_001"}
EarlyIdle ==
  early = [version |-> "none", file |-> NoFileSelected, pc |-> "idle",
           ffmpegInitialized |-> FALSE,
           error |-> [isError |-> FALSE, text |-> ""],
           blobType |-> "", filename |-> <<>>]

\* The module globals, and the page as first rendered.
ProgramInit ==
  /\ wasmSupported \in BOOLEAN
  /\ ffmpeg = 0
  /\ ffmpegInitialized = FALSE
  /\ nInstances = 0
  /\ fs = [k \in Calls |-> EmptyFs]
  /\ nCalls = 0
  /\ file = [c \in Calls |-> NoFileSelected]
  /\ pvf = [c \in Calls |-> "idle"]
  /\ result = [c \in Calls |-> [kind |-> "none", data |-> NoData]]
  /\ conv = [c \in Calls |-> "none"]
  /\ inst = [c \in Calls |-> 0]
  /\ outBlob = [c \in Calls |-> NoData]
  /\ timedOut = [c \in Calls |-> FALSE]
  /\ wrote = [c \in Calls |-> FALSE]
  /\ delTried = [c \in Calls |-> {}]
  /\ err = [c \in Calls |-> NoError]
  /\ loaded = {}
  /\ state = "idle"
  /\ analysis = "null"
  /\ error = "null"
  /\ videoPreview = 0
  /\ cur = 0
  /\ jpc = "none"
  /\ i = 0
  /\ blobAccessible = FALSE
  /\ clock = 0
  /\ pollAt = <<>>
  /\ confirmed = FALSE
  /\ analyzePosts = 0
  /\ processedFile = NoFileSelected
  /\ token = NoToken
  /\ bytesSent = FALSE
  /\ uploads = 0

\* The three Cloudinary variables of process.env.
CloudinaryVars ==
  {"CLOUDINARY_CLOUD_NAME", "CLOUDINARY_API_KEY", "CLOUDINARY_API_SECRET"}

NoResponse == [status |-> 0, body |-> <<>>]

\* Nothing done yet by the POST handler of /api/analyze.
NothingDone ==
  [downloads |-> 0, tempWrites |-> 0, cloudTempWrites |-> 0, cloudCalls |-> 0,
   cloudUnlinks |-> 0, validated |-> "none",
   geminiUploads |-> 0, uploadedAs |-> "", getFiles |-> 0, generateCalls |-> 0,
   lastGenerate |-> "none",
   handleDeletes |-> 0, unlinks |-> 0, blobDeletes |-> 0,
   cleanupFailed |-> FALSE, waitedMs |-> 0, backoffMs |-> <<>>,
   downloadDelaysMs |-> <<>>]

\* The locals of a POST handler that has not run yet.
HandlerIdle ==
  /\ apc = "idle"
  /\ tempFilePath = FALSE
  /\ blobUrl = FALSE
  /\ geminiFile = "none"
  /\ processingAttempts = 0
  /\ retryCount = 0
  /\ attempt = 0
  /\ response = NoResponse
  /\ did = NothingDone

\* No request to /api/analyze under observation.
AnalyzeIdle ==
  /\ env = [version |-> "current", gemini |-> TRUE, cloudinary |-> CloudinaryVars]
  /\ req = [parses |-> FALSE, videoUrl |-> FALSE, mimeType |-> ""]
  /\ buf = <<>>
  /\ HandlerIdle

Init ==
  /\ ProgramInit
  /\ sniffFile = NoFileSelected
  /\ SniffIdle
  /\ InitIdle
  /\ EarlyIdle
  /\ AnalyzeIdle

(***************************************************************************)
(* videoProcessor.ts                                                       *)
(***************************************************************************)

Original(c) == [kind |-> "orig", data |-> [src |-> c, by |-> 0, late |-> FALSE]]
Transcoded_TypedAsInput(d) == [kind |-> "orig", data |-> d]
Transcoded(d) == [kind |-> "mp4", data |-> d]
NoResult == [kind |-> "none", data |-> NoData]

IsWebAssemblySupported_AlwaysTrue == TRUE
\* isWebAssemblySupported()
IsWebAssemblySupported == wasmSupported

\* processVideoFile: catch { convertedBlob = file } and the return after it
OnRaceRejected(c) == [status |-> "done", res |-> Original(c)]

\* processVideoFile: convertedBlob = await Promise.race([...]) and the return
OnRaceResolved(c, d) == [status |-> "done", res |-> Transcoded(d)]

\* processVideoFile: `swing-${Date.now()}.${file.name.split('.').pop()}`, as
\* its "."-separated parts (the timestamp has no "." in it)
Filename(f) == <<"swing-<timestamp>", Ext(f)>>

\* initFFmpeg: if (ffmpegInitialized && ffmpeg) return ffmpeg
SessionCached == ffmpegInitialized /\ ffmpeg # 0

SessionAfterLoadFailure_HalfReady(c) ==
  [ffmpeg |-> inst[c], ffmpegInitialized |-> ffmpegInitialized]
\* initFFmpeg: the catch block rethrows and assigns nothing
SessionAfterLoadFailure(c) ==
  [ffmpeg |-> ffmpeg, ffmpegInitialized |-> ffmpegInitialized]

\* initFFmpeg: ffmpeg = ffmpegInstance; ffmpegInitialized = true
SessionAfterLoad(c) == [ffmpeg |-> inst[c], ffmpegInitialized |-> TRUE]

\* initFFmpeg (direct-URL): errorMsg = error instanceof Error ? error.message
\* : String(error); throw new Error(`Failed to initialize video processing:
\* ${errorMsg}`)
InitError(e) ==
  [message |-> "Failed to initialize video processing: " \o e.text,
   thrown |-> e]

\* detectAndConvertVideo: throw new Error(`Failed to convert video: ${error
\* instanceof Error ? error.message : "Unknown error"}`)
ConvertError(e) ==
  [message |-> "Failed to convert video: " \o
                 (IF e.isError THEN e.text ELSE "Unknown error"),
   thrown |-> e]

\* The promise of detectAndConvertVideo(c) settles; the race of
\* processVideoFile(c), if still unsettled, settles with it in the same
\* microtask checkpoint.
SettleConv(c, how, d) ==
  /\ conv' = [conv EXCEPT ![c] = how]
  /\ IF pvf[c] = "racing"
       THEN LET o == IF how = "resolved" THEN OnRaceResolved(c, d)
                     ELSE OnRaceRejected(c)  \* "initFailed" or "rejected"
            IN /\ pvf' = [pvf EXCEPT ![c] = o.status]
               /\ result' = [result EXCEPT ![c] = o.res]
       ELSE UNCHANGED <<pvf, result>>

\* processVideoFile(f) up to its first await, as call number c.
ProcessVideoFileStart(c, f) ==
  /\ nCalls' = c
  /\ file' = [file EXCEPT ![c] = f]
  /\ UNCHANGED <<wasmSupported, ffmpeg, ffmpegInitialized, fs, outBlob,
                 timedOut, wrote, delTried,
                 err, loaded>>
  /\ IF ~IsWebAssemblySupported
       THEN \* passthrough: detectAndConvertVideo is not called
            /\ pvf' = [pvf EXCEPT ![c] = "done"]
            /\ result' = [result EXCEPT ![c] = Original(c)]
            /\ UNCHANGED <<conv, inst, nInstances>>
       ELSE \* the timer is armed; detectAndConvertVideo calls initFFmpeg
            /\ pvf' = [pvf EXCEPT ![c] = "racing"]
            /\ UNCHANGED result
            /\ IF SessionCached
                 THEN \* return ffmpeg; then fetchFile / writeFile
                      /\ inst' = [inst EXCEPT ![c] = ffmpeg]
                      /\ conv' = [conv EXCEPT ![c] = "write"]
                      /\ UNCHANGED nInstances
                 ELSE \* new FFmpeg(); await ffmpegInstance.load(...)
                      /\ nInstances' = nInstances + 1
                      /\ inst' = [inst EXCEPT ![c] = nInstances + 1]
                      /\ conv' = [conv EXCEPT ![c] = "load"]

\* await ffmpegInstance.load(...) resolves; initFFmpeg returns the instance
\* and detectAndConvertVideo goes on to fetchFile / writeFile
LoadOk(c) ==
  /\ conv[c] = "load"
  /\ ffmpeg' = SessionAfterLoad(c).ffmpeg
  /\ ffmpegInitialized' = SessionAfterLoad(c).ffmpegInitialized
  /\ conv' = [conv EXCEPT ![c] = "write"]
  /\ loaded' = loaded \cup {inst[c]}
  /\ UNCHANGED <<wasmSupported, nInstances, fs, nCalls, file, pvf, result,
                 inst, outBlob, timedOut, wrote, delTried,
                 err>>
  /\ UNCHANGED <<pageVars, auxVars>>

LoadFail_ProceedsToWrite(c) ==
  /\ conv[c] = "load"
  /\ conv' = [conv EXCEPT ![c] = "write"]
  /\ UNCHANGED <<wasmSupported, ffmpeg, ffmpegInitialized, nInstances, fs,
                 nCalls, file, pvf, result, inst, outBlob, timedOut, wrote,
                 delTried, err, loaded>>
  /\ UNCHANGED <<pageVars, auxVars>>
\* await ffmpegInstance.load(...) rejects: initFFmpeg throws the wrapped error,
\* detectAndConvertVideo rejects (its await initFFmpeg() is outside the try)
LoadFail(c) ==
  /\ conv[c] = "load"
  /\ ffmpeg' = SessionAfterLoadFailure(c).ffmpeg
  /\ ffmpegInitialized' = SessionAfterLoadFailure(c).ffmpegInitialized
  /\ SettleConv(c, "initFailed", NoData)
  /\ \E e \in Throwables : err' = [err EXCEPT ![c] = InitError(e)]
  /\ UNCHANGED <<wasmSupported, nInstances, fs, nCalls, file,
                 inst, outBlob, timedOut, wrote, delTried, loaded>>
  /\ UNCHANGED <<pageVars, auxVars>>

\* An awaited step inside the try of detectAndConvertVideo throws: the catch
\* wraps it ("Failed to convert video: ...") and the call rejects.
ConvertThrows(c, at) ==
  /\ conv[c] = at
  /\ SettleConv(c, "rejected", NoData)
  /\ \E e \in Throwables : err' = [err EXCEPT ![c] = ConvertError(e)]
  /\ UNCHANGED <<wasmSupported, ffmpeg, ffmpegInitialized, nInstances, fs,
                 nCalls, file, inst, outBlob, timedOut, wrote, delTried, loaded>>
  /\ UNCHANGED <<pageVars, auxVars>>

\* await fetchFile(file) or await instance.writeFile(...) throws
WriteFail(c) == ConvertThrows(c, "write")
\* await instance.exec([...]) throws
ExecFail(c) == ConvertThrows(c, "exec")
\* await instance.readFile(outputName) throws
ReadFail(c) == ConvertThrows(c, "read")

\* await instance.writeFile(inputName, fileData) resolves; exec is issued
WriteOk(c) ==
  /\ conv[c] = "write"
  /\ fs' = [fs EXCEPT ![inst[c]][InputName(file[c])] =
                          [src |-> c, by |-> c, late |-> FALSE]]
  /\ wrote' = [wrote EXCEPT ![c] = TRUE]
  /\ conv' = [conv EXCEPT ![c] = "exec"]
  /\ UNCHANGED <<wasmSupported, ffmpeg, ffmpegInitialized, nInstances,
                 nCalls, file, pvf, result, inst, outBlob, timedOut, delTried,
                 err, loaded>>
  /\ UNCHANGED <<pageVars, auxVars>>

\* await instance.exec([...]) resolves (its exit code is not looked at):
\* with encoded = TRUE the encoder read inputName and wrote output.mp4,
\* otherwise it wrote nothing; readFile is issued
ExecReturn(c, encoded) ==
  /\ conv[c] = "exec"
  /\ LET inp == fs[inst[c]][InputName(file[c])]
     IN /\ encoded => inp # NoData
        /\ fs' = IF encoded
                   THEN [fs EXCEPT ![inst[c]][OutputName] =
                                       [src |-> inp.src, by |-> c,
                                        late |-> timedOut[c]]]
                   ELSE fs
  /\ conv' = [conv EXCEPT ![c] = "read"]
  /\ UNCHANGED <<wasmSupported, ffmpeg, ffmpegInitialized, nInstances, nCalls,
                 file, pvf, result, inst, outBlob, timedOut, wrote, delTried,
                 err, loaded>>
  /\ UNCHANGED <<pageVars, auxVars>>

\* await instance.readFile(outputName) resolves; the blob is built and
\* deleteFile(inputName) is issued
ReadOk(c) ==
  /\ conv[c] = "read"
  /\ fs[inst[c]][OutputName] # NoData
  /\ outBlob' = [outBlob EXCEPT ![c] = fs[inst[c]][OutputName]]
  /\ conv' = [conv EXCEPT ![c] = "delIn"]
  /\ delTried' = [delTried EXCEPT ![c] = {"in"}]
  /\ UNCHANGED <<wasmSupported, ffmpeg, ffmpegInitialized, nInstances, fs,
                 nCalls, file, pvf, result, inst, timedOut, wrote,
                 err, loaded>>
  /\ UNCHANGED <<pageVars, auxVars>>

\* await instance.deleteFile(inputName) resolves; deleteFile(outputName) issued
DelInOk(c) ==
  /\ conv[c] = "delIn"
  /\ fs[inst[c]][InputName(file[c])] # NoData
  /\ fs' = [fs EXCEPT ![inst[c]][InputName(file[c])] = NoData]
  /\ conv' = [conv EXCEPT ![c] = "delOut"]
  /\ delTried' = [delTried EXCEPT ![c] = {"in", "out"}]
  /\ UNCHANGED <<wasmSupported, ffmpeg, ffmpegInitialized, nInstances,
                 nCalls, file, pvf, result, inst, outBlob, timedOut, wrote,
                 err, loaded>>
  /\ UNCHANGED <<pageVars, auxVars>>

\* await instance.deleteFile(outputName) resolves; return outputBlob
DelOutOk(c) ==
  /\ conv[c] = "delOut"
  /\ fs[inst[c]][OutputName] # NoData
  /\ fs' = [fs EXCEPT ![inst[c]][OutputName] = NoData]
  /\ SettleConv(c, "resolved", outBlob[c])
  /\ UNCHANGED <<wasmSupported, ffmpeg, ffmpegInitialized, nInstances,
                 nCalls, file, inst, outBlob, timedOut, wrote, delTried,
                 err, loaded>>
  /\ UNCHANGED <<pageVars, auxVars>>

DelFail_Rejects(c) ==
  /\ conv[c] \in {"delIn", "delOut"}
  /\ SettleConv(c, "rejected", NoData)
  /\ UNCHANGED <<wasmSupported, ffmpeg, ffmpegInitialized, nInstances, fs,
                 nCalls, file, inst, outBlob, timedOut, wrote, delTried,
                 err, loaded>>
  /\ UNCHANGED <<pageVars, auxVars>>
\* Either deleteFile throws: the inner catch swallows it, the second delete
\* (if not yet issued) is skipped; return outputBlob
DelFail(c) ==
  /\ conv[c] \in {"delIn", "delOut"}
  /\ SettleConv(c, "resolved", outBlob[c])
  /\ UNCHANGED <<wasmSupported, ffmpeg, ffmpegInitialized, nInstances, fs,
                 nCalls, file, inst, outBlob, timedOut, wrote, delTried,
                 err, loaded>>
  /\ UNCHANGED <<pageVars, auxVars>>

Timeout_ArmedAfterInit(c) ==
  /\ pvf[c] = "racing"
  /\ conv[c] # "load"
  /\ pvf' = [pvf EXCEPT ![c] = OnRaceRejected(c).status]
  /\ result' = [result EXCEPT ![c] = OnRaceRejected(c).res]
  /\ timedOut' = [timedOut EXCEPT ![c] = TRUE]
  /\ UNCHANGED <<wasmSupported, ffmpeg, ffmpegInitialized, nInstances, fs,
                 nCalls, file, conv, inst, outBlob, wrote, delTried,
                 err, loaded>>
  /\ UNCHANGED <<pageVars, auxVars>>

\* The setTimeout(..., 30000) callback rejects timeoutPromise while the race
\* is unsettled: the catch passes the original file through.  The pending
\* detectAndConvertVideo(c) is not cancelled.
Timeout(c) ==
  /\ pvf[c] = "racing"
  /\ pvf' = [pvf EXCEPT ![c] = OnRaceRejected(c).status]
  /\ result' = [result EXCEPT ![c] = OnRaceRejected(c).res]
  /\ timedOut' = [timedOut EXCEPT ![c] = TRUE]
  /\ UNCHANGED <<wasmSupported, ffmpeg, ffmpegInitialized, nInstances, fs,
                 nCalls, file, conv, inst, outBlob, wrote, delTried,
                 err, loaded>>
  /\ UNCHANGED <<pageVars, auxVars>>

\* A caller other than the page invokes the exported processVideoFile(f).
ProcessVideoFile(f) ==
  /\ nCalls < MaxCalls
  /\ ProcessVideoFileStart(nCalls + 1, f)
  /\ UNCHANGED <<pageVars, auxVars>>

(***************************************************************************)
(* page.tsx: handleFileSelect and reset                                    *)
(***************************************************************************)

IsVideoType_AnyType(f) == TRUE
\* file.type.startsWith("video/")
IsVideoType(f) == Len(f.type) >= 2 /\ f.type[1] = "video"

Is2xx_NoUpperBound(status) == status >= 200
\* checkResponse.status >= 200 && checkResponse.status < 300
Is2xx(status) == status >= 200 /\ status < 300

\* throw new Error("Video upload succeeded but file is not accessible. ...")
AvailabilityError ==
  "Video upload succeeded but file is not accessible. Please try again."

MorePolls_OneMore(k) == k <= PollAttempts
\* for (let i = 0; i < 30; i++)
MorePolls(k) == k < PollAttempts

\* What upload(), fetch("/api/analyze") and response.json() may reject with:
\* an Error with its message, possibly empty, or a value that is not an Error.
PageThrowables == Throwables \cup { [isError |-> TRUE, text |-> ""] }

\* err instanceof Error ? err.message : "Something went wrong"
CaughtMessage(e) == IF e.isError THEN e.text ELSE "Something went wrong"

\* What a parsed 200 answer of /api/analyze may be: an analysis object, an
\* object without the fields of an analysis ({}), or a JSON value that is
\* falsy in the page's render test (null, false).
AnalysisBodies == {"result", "{}", "null", "false"}

\* `analysis` as a condition: state === "complete" && analysis
Truthy(a) == a \notin {"null", "false"}

\* ResultsView renders a: it reads analysis.strengths.length,
\* analysis.improvements.length and analysis.trainingPlan.map, which throw on
\* an object without these arrays; nothing in the page catches a render error
Renders(a) == a = "result"

\* errorData.error of a !ok answer; "" when the body has no error field, an
\* empty one, or does not parse (.catch(() => ({})))
ErrorFields == {"", "API key not configured"}

\* errorData.error || "Analysis failed. Please try again."
AnalysisErrorMessage(field) ==
  IF field = "" THEN "Analysis failed. Please try again." ELSE field

\* catch (err) { setError(...); setState("error") } ends the journey
Fails(msg) ==
  /\ error' = msg
  /\ state' = "error"
  /\ jpc' = "none"
  /\ cur' = 0

\* fetch(blob.url, { method: "GET", headers: { Range: "bytes=0-1" } })
IssuePoll(at) ==
  /\ pollAt' = Append(pollAt, at)
  /\ jpc' = "poll"

\* After the loop: if (!blobAccessible) throw ...; else the POST to
\* /api/analyze is issued.  `before` is the page state if nothing is thrown.
AfterLoop(accessible, before) ==
  IF ~accessible
    THEN Fails(AvailabilityError) /\ UNCHANGED analyzePosts
    ELSE /\ analyzePosts' = analyzePosts + 1
         /\ jpc' = "analyze"
         /\ state' = before
         /\ UNCHANGED <<error, cur>>

\* One pass of the loop header for loop variable k: the next poll, or the end
\* of the loop.
LoopHead(k, at, before) ==
  IF MorePolls(k)
    THEN /\ IssuePoll(at)
         /\ state' = before
         /\ UNCHANGED <<error, cur, analyzePosts>>
    ELSE /\ AfterLoop(blobAccessible', before)
         /\ UNCHANGED pollAt

\* Sizes a transcoded blob may have.
TranscodedSizes == {4194304, 62914560}

\* new File([processedBlob], processedFilename, { type: "video/mp4" })
ProcessedFile(f, size) ==
  [name |-> Filename(f), type |-> <<"video", "mp4">>, size |-> size]

\* upload/route.ts, onBeforeGenerateToken: allowedContentTypes
AllowedContentTypes ==
  { <<"video", "mp4">>, <<"video", "quicktime">>, <<"video", "webm">>,
    <<"video", "mov">>, <<"video", "x-m4v">> }

MaximumSizeInBytes_Doubled == 2 * 50 * 1024 * 1024
\* upload/route.ts, onBeforeGenerateToken: maximumSizeInBytes
MaximumSizeInBytes == 50 * 1024 * 1024

\* What onBeforeGenerateToken returns for any pathname; handleUpload signs it
\* into the client token.
OnBeforeGenerateToken ==
  [allowedContentTypes |-> AllowedContentTypes,
   maximumSizeInBytes |-> MaximumSizeInBytes]

\* The object store checks the declared content type and the size of a
\* client upload against the constraints of its token before it accepts the
\* transfer.
TokenPermits(t, f) ==
  f.type \in t.allowedContentTypes /\ f.size <= t.maximumSizeInBytes

\* handleFileSelect(f) up to its first await.  The drop zone and the file
\* input are rendered in the idle state only.
HandleFileSelect(f) ==
  /\ state = "idle"
  /\ IF ~IsVideoType(f)
       THEN /\ error' = "Please upload a video file"
            /\ UNCHANGED <<state, analysis, videoPreview, cur, jpc, i,
                           blobAccessible, clock, pollAt, confirmed,
                           analyzePosts, uploadVars>>
            /\ UNCHANGED <<procVars, auxVars>>
       ELSE IF f.size > MaxUploadBytes
         THEN /\ error' = "Video must be under 50MB"
              /\ UNCHANGED <<state, analysis, videoPreview, cur, jpc, i,
                             blobAccessible, clock, pollAt, confirmed,
                             analyzePosts, uploadVars>>
              /\ UNCHANGED <<procVars, auxVars>>
         ELSE /\ videoPreview' = nCalls + 1
              /\ error' = "null"
              /\ state' = "uploading"
              /\ cur' = nCalls + 1
              /\ jpc' = "process"
              /\ i' = 0
              /\ blobAccessible' = FALSE
              /\ clock' = 0
              /\ pollAt' = <<>>
              /\ confirmed' = FALSE
              /\ analyzePosts' = 0
              /\ processedFile' = NoFileSelected
              /\ token' = NoToken
              /\ bytesSent' = FALSE
              /\ uploads' = 0
              /\ UNCHANGED <<analysis, auxVars>>
              /\ ProcessVideoFileStart(nCalls + 1, f)

\* await processVideoFile(file) resolves; processedFile is built and
\* upload(processedFile.name, processedFile, ...) is issued: the client asks
\* /api/upload for a token
ProcessResolved ==
  /\ jpc = "process"
  /\ pvf[cur] = "done"
  /\ \E size \in IF result[cur].kind = "orig" THEN {file[cur].size}
                  ELSE TranscodedSizes :
       processedFile' = ProcessedFile(file[cur], size)
  /\ uploads' = uploads + 1
  /\ jpc' = "upload"
  /\ UNCHANGED <<state, analysis, error, videoPreview, cur, i, blobAccessible,
                 clock, pollAt, confirmed, analyzePosts, token, bytesSent>>
  /\ UNCHANGED <<procVars, auxVars>>

\* POST /api/upload: handleUpload calls onBeforeGenerateToken and answers
\* with the client token; upload() starts the transfer to the object store
UploadAuthorize ==
  /\ jpc = "upload"
  /\ token' = OnBeforeGenerateToken
  /\ jpc' = "transfer"
  /\ UNCHANGED <<state, analysis, error, videoPreview, cur, i, blobAccessible,
                 clock, pollAt, confirmed, analyzePosts, processedFile,
                 bytesSent, uploads>>
  /\ UNCHANGED <<procVars, auxVars>>

\* await upload(...) resolves: setState("analyzing"), the loop starts with
\* i = 0 and the first poll is issued
UploadOk ==
  /\ jpc = "transfer"
  /\ TokenPermits(token, processedFile)
  /\ bytesSent' = TRUE
  /\ i' = 0
  /\ blobAccessible' = FALSE
  /\ LoopHead(0, clock, "analyzing")
  /\ UNCHANGED <<analysis, videoPreview, clock, confirmed, processedFile,
                 token, uploads>>
  /\ UNCHANGED <<procVars, auxVars>>

UploadFail_Swallowed(e) ==
  /\ jpc \in {"upload", "transfer"}
  /\ bytesSent' = FALSE
  /\ i' = 0
  /\ blobAccessible' = FALSE
  /\ LoopHead(0, clock, "analyzing")
  /\ UNCHANGED <<analysis, videoPreview, clock, confirmed, processedFile,
                 token, uploads>>
  /\ UNCHANGED <<procVars, auxVars>>
\* await upload(...) rejects with e: /api/upload answered 500 or was
\* unreachable, the store refused the transfer, or the transfer broke off;
\* the catch shows what was thrown
UploadFail(e) ==
  /\ jpc \in {"upload", "transfer"}
  /\ bytesSent' \in IF jpc = "transfer" /\ TokenPermits(token, processedFile)
                     THEN BOOLEAN ELSE {FALSE}
  /\ Fails(CaughtMessage(e))
  /\ UNCHANGED <<analysis, videoPreview, i, blobAccessible, clock, pollAt,
                 confirmed, analyzePosts, processedFile, token, uploads>>
  /\ UNCHANGED <<procVars, auxVars>>

\* The poll answers with `status`: on 2xx blobAccessible = true; break; the
\* check after the loop passes and the POST to /api/analyze is issued.
\* Otherwise the 1 s sleep starts.
PollAnswered(status) ==
  /\ jpc = "poll"
  /\ confirmed' = (confirmed \/ status \in 200..299)
  /\ IF Is2xx(status)
       THEN /\ blobAccessible' = TRUE
            /\ AfterLoop(blobAccessible', state)
       ELSE /\ jpc' = "sleep"
            /\ UNCHANGED <<blobAccessible, analyzePosts, error, cur, state>>
  /\ UNCHANGED <<analysis, videoPreview, i, clock, pollAt, uploadVars>>
  /\ UNCHANGED <<procVars, auxVars>>

PollThrows_Aborts ==
  /\ jpc = "poll"
  /\ Fails("Something went wrong")
  /\ UNCHANGED <<analysis, videoPreview, i, blobAccessible,
                 clock, pollAt, confirmed, analyzePosts, uploadVars>>
  /\ UNCHANGED <<procVars, auxVars>>

\* The poll's fetch throws: catch { /* Retry */ }, the 1 s sleep starts
PollThrows ==
  /\ jpc = "poll"
  /\ jpc' = "sleep"
  /\ UNCHANGED <<state, analysis, error, videoPreview, cur, i, blobAccessible,
                 clock, pollAt, confirmed, analyzePosts, uploadVars>>
  /\ UNCHANGED <<procVars, auxVars>>

\* await new Promise(resolve => setTimeout(resolve, 1000)) resolves; i++;
\* the next poll is issued, or the loop ends and !blobAccessible throws
SleepDone ==
  /\ jpc = "sleep"
  /\ clock' = clock + PollIntervalMs
  /\ i' = i + 1
  /\ UNCHANGED blobAccessible
  /\ LoopHead(i + 1, clock + PollIntervalMs, state)
  /\ UNCHANGED <<analysis, videoPreview, confirmed, uploadVars>>
  /\ UNCHANGED <<procVars, auxVars>>

\* The POST to /api/analyze answers ok and its JSON parses to body:
\* setAnalysis(result); setState("complete")
AnalyzeOk(body) ==
  /\ jpc = "analyze"
  /\ analysis' = body
  /\ state' = "complete"
  /\ jpc' = "none"
  /\ cur' = 0
  /\ UNCHANGED <<error, videoPreview, i, blobAccessible, clock, pollAt,
                 confirmed, analyzePosts, uploadVars>>
  /\ UNCHANGED <<procVars, auxVars>>

\* The POST answers !ok with errorData.error = field: throw new Error(
\* errorData.error || "Analysis failed. Please try again."), caught below
AnalyzeFail(field) ==
  /\ jpc = "analyze"
  /\ Fails(CaughtMessage([isError |-> TRUE,
                          text |-> AnalysisErrorMessage(field)]))
  /\ UNCHANGED <<analysis, videoPreview, i, blobAccessible, clock, pollAt,
                 confirmed, analyzePosts, uploadVars>>
  /\ UNCHANGED <<procVars, auxVars>>

\* fetch("/api/analyze") rejects with e, or response.json() of the ok answer
\* does (the body is not JSON)
AnalyzeThrows(e) ==
  /\ jpc = "analyze"
  /\ Fails(CaughtMessage(e))
  /\ UNCHANGED <<analysis, videoPreview, i, blobAccessible, clock, pollAt,
                 confirmed, analyzePosts, uploadVars>>
  /\ UNCHANGED <<procVars, auxVars>>

Reset_AnyState ==
  /\ state # "idle"
  /\ state' = "idle"
  /\ analysis' = "null"
  /\ error' = "null"
  /\ videoPreview' = 0
  \* the locals of the finished handleFileSelect run are gone
  /\ i' = 0
  /\ blobAccessible' = FALSE
  /\ clock' = 0
  /\ pollAt' = <<>>
  /\ confirmed' = FALSE
  /\ analyzePosts' = 0
  /\ processedFile' = NoFileSelected
  /\ token' = NoToken
  /\ bytesSent' = FALSE
  /\ uploads' = 0
  /\ UNCHANGED <<cur, jpc>>
  /\ UNCHANGED <<procVars, auxVars>>

\* reset(): offered by the results view, rendered when state === "complete"
\* && analysis and only if its render does not throw, and by the error view,
\* rendered when state === "error"
Reset ==
  /\ \/ state = "complete" /\ Truthy(analysis) /\ Renders(analysis)
     \/ state = "error"
  /\ state' = "idle"
  /\ analysis' = "null"
  /\ error' = "null"
  /\ videoPreview' = 0
  \* the locals of the finished handleFileSelect run are gone
  /\ i' = 0
  /\ blobAccessible' = FALSE
  /\ clock' = 0
  /\ pollAt' = <<>>
  /\ confirmed' = FALSE
  /\ analyzePosts' = 0
  /\ processedFile' = NoFileSelected
  /\ token' = NoToken
  /\ bytesSent' = FALSE
  /\ uploads' = 0
  /\ UNCHANGED <<cur, jpc>>
  /\ UNCHANGED <<procVars, auxVars>>

LibNext ==
  \/ \E c \in Calls : LoadOk(c)
  \/ \E c \in Calls : LoadFail(c)
  \/ \E c \in Calls : WriteOk(c)
  \/ \E c \in Calls : WriteFail(c)
  \/ \E c \in Calls, encoded \in BOOLEAN : ExecReturn(c, encoded)
  \/ \E c \in Calls : ExecFail(c)
  \/ \E c \in Calls : ReadOk(c)
  \/ \E c \in Calls : ReadFail(c)
  \/ \E c \in Calls : DelInOk(c)
  \/ \E c \in Calls : DelOutOk(c)
  \/ \E c \in Calls : DelFail(c)
  \/ \E c \in Calls : Timeout(c)

\* The page: every processVideoFile call comes from handleFileSelect.
Next ==
  \/ /\ nCalls < MaxJourneys
     /\ \E f \in Files : HandleFileSelect(f)
  \/ ProcessResolved
  \/ UploadAuthorize
  \/ UploadOk
  \/ \E e \in PageThrowables : UploadFail(e)
  \/ \E status \in Statuses : PollAnswered(status)
  \/ PollThrows
  \/ SleepDone
  \/ \E body \in AnalysisBodies : AnalyzeOk(body)
  \/ \E field \in ErrorFields : AnalyzeFail(field)
  \/ \E e \in PageThrowables : AnalyzeThrows(e)
  \/ Reset
  \/ LibNext

Spec == Init /\ [][Next]_vars

\* The continuations of a handleFileSelect run: each becomes enabled when the
\* call the run awaits has settled.
JourneyNext ==
  \/ ProcessResolved
  \/ UploadAuthorize
  \/ UploadOk
  \/ \E e \in PageThrowables : UploadFail(e)
  \/ \E status \in Statuses : PollAnswered(status)
  \/ PollThrows
  \/ SleepDone
  \/ \E body \in AnalysisBodies : AnalyzeOk(body)
  \/ \E field \in ErrorFields : AnalyzeFail(field)
  \/ \E e \in PageThrowables : AnalyzeThrows(e)

\* The first journey of a page load, up to and including its reset.
NextFirstJourney ==
  \/ /\ nCalls = 0
     /\ \E f \in Files : HandleFileSelect(f)
  \/ JourneyNext
  \/ Reset
  \/ LibNext

\* The first two journeys of a page load: the second starts after the reset
\* of the first, while what the first left behind (an abandoned transcode,
\* the cached session, scratch files) is still there.
NextTwoJourneys ==
  \/ /\ nCalls <= 1
     /\ \E f \in Files : HandleFileSelect(f)
  \/ JourneyNext
  \/ Reset
  \/ LibNext

SpecTwoJourneys == Init /\ [][NextTwoJourneys]_vars

\* The page when every call it awaits settles and every timer fires: the run
\* is resumed whenever it can be, and the deadline timer of processVideoFile
\* fires.  Nothing is assumed about the steps of the transcoder.
SpecLive ==
  /\ Init
  /\ [][NextFirstJourney]_vars
  /\ WF_vars(JourneyNext)
  /\ \A c \in Calls : WF_vars(Timeout(c))

\* The videoProcessor module on its own: processVideoFile called at any time.
VideoFiles == {f \in Files : IsVideoType(f) /\ f.size <= MaxUploadBytes}

NextVideo ==
  \/ \E f \in VideoFiles : ProcessVideoFile(f)
  \/ LibNext

SpecVideo == Init /\ [][NextVideo]_vars

\* The first processVideoFile call of a page load, on any video.
FirstCall(f) ==
  /\ nCalls = 0
  /\ ProcessVideoFile(f)

NextFirstCall ==
  \/ \E f \in VideoFiles \cup OtherVideoFiles : FirstCall(f)
  \/ LibNext

\* With the one thing the event loop guarantees: a timer that was armed with
\* setTimeout fires.  Nothing is assumed about load, writeFile, exec,
\* readFile and deleteFile, which may stay pending for ever.
SpecVideoLive ==
  Init /\ [][NextFirstCall]_vars /\ \A c \in Calls : WF_vars(Timeout(c))

\* Round trip: processVideoFile on a video, then again on the File its caller
\* builds from the transcoded blob and the returned filename.
FeedBack(size) ==
  /\ nCalls = 1
  /\ pvf[1] = "done"
  /\ result[1].kind = "mp4"
  /\ ProcessVideoFile(ProcessedFile(file[1], size))

NextRoundTrip ==
  \/ /\ nCalls = 0
     /\ \E f \in VideoFiles \cup OtherVideoFiles : ProcessVideoFile(f)
  \/ \E size \in TranscodedSizes : FeedBack(size)
  \/ LibNext

SpecRoundTrip == Init /\ [][NextRoundTrip]_vars

(***************************************************************************)
(* videoProcessor.ts, earlier version (lines 1-152): isLikelyHevc          *)
(***************************************************************************)

\* String.prototype.toLowerCase on the name parts used here
ToLowerCase(str) ==
  CASE str = "MOV" -> "mov"
    [] str = "Mov" -> "mov"
    [] str = "MP4" -> "mp4"
    [] str = "HEIC" -> "heic"
    [] str = "SWING" -> "swing"
    [] OTHER -> str

\* file.name.toLowerCase().endsWith("." + ext), ext lower-case without ".":
\* the name has a "." and what follows its last "." is ext in any case
NameEndsWith(f, ext) ==
  Len(f.name) >= 2 /\ ToLowerCase(f.name[Len(f.name)]) = ext

IsLikelyHevc_PessimisticDefault(f) ==
  \/ NameEndsWith(f, "mov")
  \/ NameEndsWith(f, "heic")
  \/ Len(f.name) < 2
\* isLikelyHevc(file): isMov || isHeic || isHevcMimeType
IsLikelyHevc(f) ==
  LET isMov == NameEndsWith(f, "mov")
      isHeic == NameEndsWith(f, "heic")
      isHevcMimeType == f.type = <<"video", "mp4">> /\ isMov
  IN isMov \/ isHeic \/ isHevcMimeType

\* File names ("" is <<"">>, ".mov" is <<"", "mov">>) and declared MIME types
\* ("" is <<>>) the sniffer is applied to.
SniffNames ==
  { <<"swing", "mov">>, <<"SWING", "MOV">>, <<"clip", "Mov">>,
    <<"clip", "qt">>, <<"clip", "mp4">>, <<"clip", "MP4">>,
    <<"photo", "heic">>, <<"photo", "HEIC">>, <<"clip", "webm">>,
    <<"clip">>, <<"mov">>, <<"">>, <<"", "mov">>, <<"clip", "mov", "bak">>,
    <<"clip", "mov", "">> }
SniffTypes ==
  { <<"video", "quicktime">>, <<"video", "mp4">>, <<"video", "webm">>,
    <<"image", "heic">>, <<"application", "octet-stream">>, <<>> }
SniffFiles ==
  { [name |-> n, type |-> t, size |-> z] :
      n \in SniffNames, t \in SniffTypes, z \in {1024, 62914560} }

\* A caller evaluates isLikelyHevc(f).
IsLikelyHevcCall(f) ==
  /\ nSniffs < MaxSniffs
  /\ sniffFile' = f
  /\ verdict' = IsLikelyHevc(f)
  /\ nSniffs' = nSniffs + 1
  /\ UNCHANGED <<initVars, srvVars, earlyVars, procVars, pageVars>>

InitSniff ==
  /\ ProgramInit
  /\ sniffFile = NoFileSelected
  /\ SniffIdle
  /\ InitIdle
  /\ EarlyIdle
  /\ AnalyzeIdle

NextSniff == \E f \in SniffFiles : IsLikelyHevcCall(f)

SpecSniff == InitSniff /\ [][NextSniff]_vars

(***************************************************************************)
(* videoProcessor.ts: the two initFFmpeg variants side by side.  The        *)
(* blob-URL variant (lines 9-45) fetches ffmpeg-core.js and                *)
(* ffmpeg-core.wasm itself and loads from blob URLs; the direct-URL        *)
(* variant (lines 162-184) hands the URLs to load().  Each variant has     *)
(* its own copy of the module globals; every call is started on both and   *)
(* settles on both with the same load outcome.  A call is suspended        *)
(* between its cache test and the end of its load, so calls overlap.       *)
(***************************************************************************)

NoThrow == [isError |-> FALSE, text |-> ""]

\* How one initialization attempt goes: at = "none" when everything loads,
\* else the step that throws (fetching ffmpeg-core.js, fetching
\* ffmpeg-core.wasm, instantiating) and what it throws.
LoadsFine == [at |-> "none", thrown |-> NoThrow]
LoadOutcomes ==
  {LoadsFine} \cup
  {[at |-> a, thrown |-> e] : a \in {"core", "wasm", "instantiate"},
                              e \in Throwables}

\* A call suspended in its try block; local = its `ffmpegInstance`.
Pending(k) ==
  [kind |-> "pending", instance |-> 0, local |-> k, error |-> NoThrow,
   cause |-> LoadsFine]

\* What a call gives its caller: the instance (local = the instance the call
\* constructed, 0 when it returned the cached one), or the value it throws
\* (cause = the failing step and what it threw).
Returned(k, local) ==
  [kind |-> "returned", instance |-> k, local |-> local, error |-> NoThrow,
   cause |-> LoadsFine]
Threw(value, cause, local) ==
  [kind |-> "threw", instance |-> 0, local |-> local, error |-> value,
   cause |-> cause]

\* The number of `new FFmpeg()` executed by the calls r.
Constructed(r) == Cardinality({n \in 1..Len(r) : r[n].local # 0})

\* initFFmpeg up to its first await, the same in both variants: the cached
\* instance is returned, or a new FFmpeg() is constructed and the call is
\* suspended in its try block.
InitFFmpegEnter(s, k) ==
  IF s.ffmpegInitialized /\ s.ffmpeg # 0
    THEN Returned(s.ffmpeg, 0)
    ELSE Pending(k)

\* initFFmpeg, blob-URL variant, from the end of its awaits on session s
\* with k its ffmpegInstance: the two toBlobURL calls and load() are inside
\* the try; the catch logs and rethrows the error as it is.  No global is
\* read or written between the awaits of one call.
InitFFmpegBlobURL(s, k, o) ==
  IF o.at = "none"
    THEN [sess |-> [ffmpeg |-> k, ffmpegInitialized |-> TRUE],
          res |-> Returned(k, k)]
    ELSE [sess |-> s, res |-> Threw(o.thrown, o, k)]

\* initFFmpeg, direct-URL variant, from the end of its await: load() fetches
\* and instantiates; the catch throws
\* new Error(`Failed to initialize video processing: ...`)
InitFFmpegDirectURL(s, k, o) ==
  IF o.at = "none"
    THEN [sess |-> [ffmpeg |-> k, ffmpegInitialized |-> TRUE],
          res |-> Returned(k, k)]
    ELSE [sess |-> s,
          res |-> Threw([isError |-> TRUE,
                         text |-> InitError(o.thrown).message], o, k)]

InitFFmpeg(v, s, k, o) ==
  IF v = "blobURL" THEN InitFFmpegBlobURL(s, k, o)
  ELSE InitFFmpegDirectURL(s, k, o)

\* initFFmpeg() is called on each variant and runs to its first await.
InitFFmpegStart ==
  /\ \A v \in Variants : Len(ret[v]) < MaxInitCalls
  /\ ret' = [v \in Variants |->
               Append(ret[v],
                      InitFFmpegEnter(sess[v], Constructed(ret[v]) + 1))]
  /\ UNCHANGED sess
  /\ UNCHANGED <<sniffVars, srvVars, earlyVars, procVars, pageVars>>

\* The awaits of call n settle on each variant with load outcome o and the
\* call runs to its end.
InitFFmpegSettle(n, o) ==
  /\ \E v \in Variants : n <= Len(ret[v]) /\ ret[v][n].kind = "pending"
  /\ sess' = [v \in Variants |->
                IF n <= Len(ret[v]) /\ ret[v][n].kind = "pending"
                  THEN InitFFmpeg(v, sess[v], ret[v][n].local, o).sess
                  ELSE sess[v]]
  /\ ret' = [v \in Variants |->
               IF n <= Len(ret[v]) /\ ret[v][n].kind = "pending"
                 THEN [ret[v] EXCEPT
                         ![n] = InitFFmpeg(v, sess[v], ret[v][n].local, o).res]
                 ELSE ret[v]]
  /\ UNCHANGED <<sniffVars, srvVars, earlyVars, procVars, pageVars>>

NextInit ==
  \/ InitFFmpegStart
  \/ \E n \in 1..MaxInitCalls, o \in LoadOutcomes : InitFFmpegSettle(n, o)

SpecInit == Init /\ [][NextInit]_vars

(***************************************************************************)
(* processVideoFile as it was before the deadline and the fallback: in     *)
(* videoProcessor.ts lines 1-152 (blob-URL initFFmpeg, no catch in         *)
(* processVideoFile) and in part_001 (initFFmpeg wraps its error,          *)
(* processVideoFile catches and rethrows).  Neither tests for WebAssembly  *)
(* nor arms a timer.  The first call of a page load is followed, one await *)
(* at a time; early.version says which of the two texts is running.        *)
(***************************************************************************)

\* What load(), the fetches, fetchFile, writeFile, exec and readFile may
\* throw in these versions.
EarlyThrowables ==
  Throwables \cup
  { [isError |-> TRUE, text |-> "FFmpeg is not loaded"],
    [isError |-> TRUE, text |-> "wasm instantiation failed"],
    [isError |-> TRUE, text |-> "file not found"] }

\* errorMessage.includes(word) for the messages that reach the catch of
\* processVideoFile: the text of what was thrown, alone or behind the prefix
\* of initFFmpeg or of detectAndConvertVideo.  Neither prefix contains
\* "FFmpeg", "wasm" or "file".
MessageIncludes(msg, word) ==
  \E pre \in {"", "Failed to initialize video processing: ",
               "Failed to convert video: "} :
    \E e \in EarlyThrowables :
      /\ msg = pre \o e.text
      /\ \/ word = "FFmpeg" /\ e.text = "FFmpeg is not loaded"
         \/ word = "wasm" /\ e.text = "wasm instantiation failed"
         \/ word = "file" /\ e.text = "file not found"

\* What initFFmpeg throws when its load fails with e: the blob-URL variant
\* (lines 41-44) rethrows e, part_001 (lines 56-66) throws
\* new Error(`Failed to initialize video processing: ${errorMsg}`)
EarlyInitFailure(version, e) ==
  IF version = "part_001"
    THEN [isError |-> TRUE, text |-> InitError(e).message]
    ELSE e

\* catch of detectAndConvertVideo (lines 115-120, part_001 144-150)
EarlyConvertFailure(e) == [isError |-> TRUE, text |-> ConvertError(e).message]

\* What processVideoFile rejects with when detectAndConvertVideo rejected
\* with e.  Lines 135-152 have no catch; part_001 187-204 catches and throws
\* a friendlier Error for three kinds of message, else the error itself.
EarlyCatch(version, e) ==
  IF version # "part_001" THEN e
  ELSE LET errorMessage == e.text  \* e.message, or String(e) of a non-Error
       IN IF MessageIncludes(errorMessage, "FFmpeg")
            THEN [isError |-> TRUE,
                  text |-> "Video conversion failed (FFmpeg issue). Please check your internet connection and try again. Error: "
                             \o errorMessage]
          ELSE IF MessageIncludes(errorMessage, "wasm")
            THEN [isError |-> TRUE,
                  text |-> "Video processing library failed to load. Please refresh the page and try again."]
          ELSE IF MessageIncludes(errorMessage, "file")
            THEN [isError |-> TRUE,
                  text |-> "Could not read your video file. Please make sure the file is valid and try again."]
          ELSE e

\* The call rejects: detectAndConvertVideo rejected with e.
EarlyRejects(e) ==
  early' = [early EXCEPT !.pc = "rejected",
                         !.error = EarlyCatch(early.version, e)]

EarlyFrame == UNCHANGED <<procVars, pageVars, sniffVars, initVars, srvVars>>

\* processVideoFile(f) -> detectAndConvertVideo -> initFFmpeg up to its first
\* await: the HEAD request of part_001, or the fetch of the first toBlobURL
EarlyProcessVideoFile(v, f) ==
  /\ early.pc = "idle"
  /\ early' = [early EXCEPT !.version = v,
                            !.file = f,
                            !.pc = IF v = "part_001" THEN "head"
                                   ELSE "coreFetch"]
  /\ EarlyFrame

\* part_001: the HEAD request of ffmpeg-core.js settles; a failing one is
\* only logged (lines 35-43); load() is called
EarlyHeadSettles ==
  /\ early.pc = "head"
  /\ early' = [early EXCEPT !.pc = "load"]
  /\ EarlyFrame

\* toBlobURL (lines 10-14), called for ffmpeg-core.js and then for
\* ffmpeg-core.wasm: fetch(url) resolves, response.blob() resolves; after
\* the second URL load() is called
EarlyToBlobURLStep ==
  /\ early.pc \in {"coreFetch", "coreBlob", "wasmFetch", "wasmBlob"}
  /\ early' = [early EXCEPT
                 !.pc = CASE early.pc = "coreFetch" -> "coreBlob"
                          [] early.pc = "coreBlob" -> "wasmFetch"
                          [] early.pc = "wasmFetch" -> "wasmBlob"
                          [] early.pc = "wasmBlob" -> "load"]
  /\ EarlyFrame

\* load() resolves; the globals are assigned, initFFmpeg returns and
\* fetchFile(file) is called.  Neither version looks at WebAssembly.
EarlyLoadOk ==
  /\ early.pc = "load"
  /\ early' = [early EXCEPT !.pc = "fetchFile", !.ffmpegInitialized = TRUE]
  /\ EarlyFrame

\* A fetch, a response.blob() or load() throws e: initFFmpeg throws, outside
\* the try of detectAndConvertVideo
EarlyLoadFail(e) ==
  /\ early.pc \in {"coreFetch", "coreBlob", "wasmFetch", "wasmBlob", "load"}
  /\ EarlyRejects(EarlyInitFailure(early.version, e))
  /\ EarlyFrame

\* Resolving with { blob: convertedBlob, filename: `swing-${Date.now()}.mp4` }
EarlyResolves ==
  early' = [early EXCEPT !.pc = "resolved",
                         !.blobType = "video/mp4",
                         !.filename = <<"swing-<timestamp>", "mp4">>]

\* fetchFile, writeFile, exec, readFile and the two deleteFile calls resolve
\* in turn; after the last one processVideoFile resolves
EarlyStepOk ==
  /\ early.pc \in {"fetchFile", "write", "exec", "read", "delIn", "delOut"}
  /\ IF early.pc = "delOut"
       THEN EarlyResolves
       ELSE early' = [early EXCEPT
                       !.pc = CASE early.pc = "fetchFile" -> "write"
                                [] early.pc = "write" -> "exec"
                                [] early.pc = "exec" -> "read"
                                [] early.pc = "read" -> "delIn"
                                [] early.pc = "delIn" -> "delOut"]
  /\ EarlyFrame

\* fetchFile, writeFile, exec or readFile throws e: the catch of
\* detectAndConvertVideo wraps it.  A deleteFile that throws ends the
\* clean-up, is only logged, and the call resolves.
EarlyStepFail(e) ==
  /\ early.pc \in {"fetchFile", "write", "exec", "read", "delIn", "delOut"}
  /\ IF early.pc \in {"delIn", "delOut"}
       THEN EarlyResolves
       ELSE EarlyRejects(EarlyConvertFailure(e))
  /\ EarlyFrame

NextEarly ==
  \/ \E v \in EarlyVersions, f \in VideoFiles \cup OtherVideoFiles :
       EarlyProcessVideoFile(v, f)
  \/ EarlyHeadSettles
  \/ EarlyToBlobURLStep
  \/ EarlyLoadOk
  \/ \E e \in EarlyThrowables : EarlyLoadFail(e)
  \/ EarlyStepOk
  \/ \E e \in EarlyThrowables : EarlyStepFail(e)

SpecEarly == Init /\ [][NextEarly]_vars

(***************************************************************************)
(* src/src/app/api/analyze/route.ts: one POST to /api/analyze, handled by  *)
(* the current version of the route (lines 1-434) or by the earlier one    *)
(* (lines 436-701).  Every await of the handler and of convertHevcToMp4    *)
(* is a suspension point.                                                  *)
(***************************************************************************)

\* route.ts:300, 305 and route.ts:332
MaxProcessingAttempts == 60
ProcessingPollMs == 2000
MaxRetries == 3

\* buffer.toString("hex", from, to): the hex digits of bytes from..to-1
\* (0-based, clipped to the buffer), as digit values
Hex(b, from, to) ==
  LET last == IF to < Len(b) THEN to ELSE Len(b)
      n == IF last > from THEN last - from ELSE 0
  IN [k \in 1..(2 * n) |->
        IF k % 2 = 1 THEN b[from + (k + 1) \div 2] \div 16
        ELSE b[from + k \div 2] % 16]

\* String.prototype.includes on digit sequences
Includes(h, pat) ==
  \E off \in 0..(Len(h) - Len(pat)) : SubSeq(h, off + 1, off + Len(pat)) = pat

\* "66747970" (ftyp), "6674797070", "6d646174" (mdat)
HexFtyp == <<6, 6, 7, 4, 7, 9, 7, 0>>
HexFtypp == <<6, 6, 7, 4, 7, 9, 7, 0, 7, 0>>
HexMdat == <<6, 13, 6, 4, 6, 1, 7, 4>>

\* detectCodecFromBuffer(buffer); details as its words
DetectCodecFromBuffer(b) ==
  IF Hex(b, 4, 8) = HexFtyp
    THEN [codec |-> "h264", details |-> <<"MP4", "container", "(client-converted)">>]
    ELSE IF Includes(Hex(b, 0, 12), HexFtypp) \/ Includes(Hex(b, 0, 12), HexMdat)
      THEN [codec |-> "unknown", details |-> <<"MOV", "container", "detected">>]
      ELSE [codec |-> "unknown",
            details |-> <<"Could", "not", "determine", "codec">>]

\* details.includes("MOV")
IsMOVContainer(details) == \E k \in 1..Len(details) : details[k] = "MOV"

CloudinaryConfigured_AnyOne(e) == e.cloudinary # {}

\* convertHevcToMp4: the three variables are set
CloudinaryConfigured(e) == CloudinaryVars \subseteq e.cloudinary

\* validateAndPrepareVideo(buffer, originalMimeType) up to its first await:
\* "convert" = convertHevcToMp4 is called, "use" = the buffer is returned,
\* "reject" = the unexpected-format error is thrown
ValidateAndPrepareVideo(b, originalMimeType) ==
  LET d == DetectCodecFromBuffer(b)
      isQuickTime == originalMimeType \in {"video/quicktime", "video/mov"}
  IN IF isQuickTime \/ IsMOVContainer(d.details) THEN "convert"
     ELSE IF d.codec = "h264" \/ originalMimeType = "video/mp4" THEN "use"
     ELSE IF d.codec = "unknown" THEN "reject"
     ELSE "use"

\* mimeType || "video/mp4"
MimeTypeOrDefault(r) == IF r.mimeType = "" THEN "video/mp4" ELSE r.mimeType

\* First bytes of the objects a videoUrl may serve: ISO MP4 (....ftypisom),
\* QuickTime with an ftyp box (....ftypqt  ), a file whose first box is mdat,
\* one with "ftypp" at offset 0, WebM, and a 2-byte object.
Buffers ==
  { <<0, 0, 0, 24, 102, 116, 121, 112, 105, 115, 111, 109>>,
    <<0, 0, 0, 20, 102, 116, 121, 112, 113, 116, 32, 32>>,
    <<0, 0, 0, 1, 109, 100, 97, 116, 0, 0, 0, 0>>,
    <<102, 116, 121, 112, 112, 0, 0, 0, 0, 0, 0, 0>>,
    <<26, 69, 223, 163, 1, 0, 0, 0, 0, 0, 0, 31>>,
    <<0, 0>> }

MimeTypes ==
  {"video/mp4", "video/quicktime", "video/mov", "video/webm", "video/x-m4v", ""}

\* What the awaited services may reject with: an Error, or a value that is
\* not an Error
ServerThrowables ==
  { [isError |-> TRUE, message |-> <<"operation failed">>],
    [isError |-> FALSE, message |-> <<"aborted">>] }

\* A fetch that answers with a status outside 2xx, or rejects
DownloadFailures ==
  { [isError |-> TRUE, message |-> <<"Download failed: ", "404", "Not Found">>] }
    \cup ServerThrowables

\* What generateContent may reject with; rateLimited tells whether the
\* service rejected the call for its rate limit
GenerateErrors ==
  { [isError |-> TRUE, rateLimited |-> TRUE,
     message |-> <<"[429", "Too", "Many", "Requests]">>],
    [isError |-> TRUE, rateLimited |-> TRUE,
     message |-> <<"Resource", "has", "been", "exhausted">>],
    [isError |-> FALSE, rateLimited |-> TRUE,
     message |-> <<"Too", "Many", "Requests">>],
    [isError |-> TRUE, rateLimited |-> FALSE,
     message |-> <<"[500", "Internal", "Server", "Error]">>],
    [isError |-> FALSE, rateLimited |-> FALSE, message |-> <<"aborted">>] }

HandleStates == {"PROCESSING", "ACTIVE", "FAILED"}

\* route.ts:557 (earlier version)
MaxDownloadAttempts == 3

IsRateLimit_Always(e) == TRUE

\* errorMsg.includes("429") || errorMsg.includes("Too Many Requests") ||
\* errorMsg.includes("exhausted"), errorMsg being the message of an Error and
\* String(error) otherwise; a message is a sequence of words
IsRateLimit(e) ==
  \E k \in 1..Len(e.message) :
    \/ e.message[k] \in {"429", "[429", "exhausted"}
    \/ /\ k + 2 <= Len(e.message)
       /\ e.message[k] = "Too"
       /\ e.message[k + 1] = "Many"
       /\ e.message[k + 2] \in {"Requests", "Requests]"}

\* Math.pow(2, retryCount) * 1000
DelayMs(n) == (2 ^ n) * 1000

\* catch (error) of POST: the 500 response
AnalysisFailed(e) ==
  [status |-> 500,
   body |-> <<"Analysis failed: ">> \o
            (IF e.isError THEN e.message ELSE <<"Unknown error">>)]

\* catch (error) of convertHevcToMp4: the Error it throws instead
ConversionError(e) ==
  [isError |-> TRUE,
   message |-> <<"Video conversion service temporarily unavailable. ">> \o
               (IF e.isError THEN e.message ELSE <<>>)]

UnexpectedFormat(details) ==
  [isError |-> TRUE,
   message |-> <<"Unexpected video format detected: ">> \o details]

ProcessingTooLong ==
  [isError |-> TRUE, message |-> <<"Video processing took too long.">>]

ProcessingFailed(version) ==
  [isError |-> TRUE,
   message |-> IF version = "current"
                 THEN <<"Gemini failed to process your video.">>
                 ELSE <<"Gemini failed to process video: ", "FAILED">>]

RateLimitExceeded ==
  [isError |-> TRUE, message |-> <<"API rate limit exceeded.">>]

AnalysisResponse == [status |-> 200, body |-> <<"analysis">>]

\* What no action of the handler changes
SrvFrame ==
  UNCHANGED <<procVars, pageVars, sniffVars, initVars, earlyVars, env, req, buf>>

\* A return (or the catch block's return) followed by the entry into the
\* finally block: unlink if tempFilePath, then del if blobUrl
Respond(resp, temp, blob) ==
  /\ response' = resp
  /\ apc' = IF temp THEN "unlink" ELSE IF blob THEN "del" ELSE "responded"

PostStart_NoKeyCheck ==
  /\ apc = "idle"
  /\ IF ~req.parses
       THEN /\ Respond(AnalysisFailed([isError |-> TRUE,
                                        message |-> <<"Unexpected token">>]),
                       FALSE, FALSE)
            /\ UNCHANGED <<blobUrl, attempt>>
       ELSE IF ~req.videoUrl
         THEN /\ Respond([status |-> 400, body |-> <<"No video URL provided">>],
                         FALSE, FALSE)
              /\ UNCHANGED <<blobUrl, attempt>>
         ELSE /\ blobUrl' = TRUE
              /\ apc' = "download"
              /\ attempt' = IF env.version = "earlier" THEN 1 ELSE attempt
              /\ UNCHANGED response
  /\ UNCHANGED <<tempFilePath, geminiFile, processingAttempts, retryCount, did>>
  /\ SrvFrame

\* POST up to its first external call: request.json(), the videoUrl check,
\* blobUrl = videoUrl, the GEMINI_API_KEY check
PostStart ==
  /\ apc = "idle"
  /\ IF ~req.parses
       THEN /\ Respond(AnalysisFailed([isError |-> TRUE,
                                        message |-> <<"Unexpected token">>]),
                       FALSE, FALSE)
            /\ UNCHANGED <<blobUrl, attempt>>
       ELSE IF ~req.videoUrl
         THEN /\ Respond([status |-> 400, body |-> <<"No video URL provided">>],
                         FALSE, FALSE)
              /\ UNCHANGED <<blobUrl, attempt>>
         ELSE /\ blobUrl' = TRUE
              /\ IF ~env.gemini
                   THEN /\ Respond([status |-> 500,
                                    body |-> <<"API key not configured">>],
                                   FALSE, TRUE)
                        /\ UNCHANGED attempt
                   ELSE /\ apc' = "download"
                        /\ attempt' = IF env.version = "earlier" THEN 1 ELSE attempt
                        /\ UNCHANGED response
  /\ UNCHANGED <<tempFilePath, geminiFile, processingAttempts, retryCount, did>>
  /\ SrvFrame

\* fetch(videoUrl) answers 2xx.  Current version: validateAndPrepareVideo and,
\* if it asks for a conversion, convertHevcToMp4 up to its first await.
FetchVideoOk ==
  /\ apc = "download"
  /\ LET d == [did EXCEPT !.downloads = @ + 1]
         v == ValidateAndPrepareVideo(buf, MimeTypeOrDefault(req))
     IN IF env.version = "earlier" \/ v = "use"
             \/ (v = "convert" /\ ~CloudinaryConfigured(env))
          THEN /\ did' = [d EXCEPT !.validated = "original"]
               /\ tempFilePath' = TRUE
               /\ apc' = "writeTemp"
               /\ UNCHANGED response
          ELSE IF v = "convert"
            THEN /\ did' = d
                 /\ apc' = "cloudWriteTemp"
                 /\ UNCHANGED <<tempFilePath, response>>
            ELSE /\ did' = d
                 /\ Respond(AnalysisFailed(
                              UnexpectedFormat(DetectCodecFromBuffer(buf).details)),
                            FALSE, TRUE)
                 /\ UNCHANGED tempFilePath
  /\ UNCHANGED <<blobUrl, geminiFile, processingAttempts, retryCount, attempt>>
  /\ SrvFrame

FetchVideoFail_RetriesOnLast(e) ==
  /\ apc = "download"
  /\ did' = [did EXCEPT !.downloads = @ + 1]
  /\ IF env.version = "earlier" /\ attempt <= MaxDownloadAttempts
       THEN /\ attempt' = attempt + 1
            /\ apc' = "downloadDelay"
            /\ UNCHANGED response
       ELSE /\ Respond(AnalysisFailed(e), FALSE, TRUE)
            /\ UNCHANGED attempt
  /\ UNCHANGED <<tempFilePath, blobUrl, geminiFile, processingAttempts, retryCount>>
  /\ SrvFrame

\* fetch(videoUrl) answers outside 2xx or rejects.  The earlier version tries
\* again until the third attempt.
FetchVideoFail(e) ==
  /\ apc = "download"
  /\ did' = [did EXCEPT !.downloads = @ + 1]
  /\ IF env.version = "earlier" /\ attempt < MaxDownloadAttempts
       THEN /\ attempt' = attempt + 1
            /\ apc' = "downloadDelay"
            /\ UNCHANGED response
       ELSE /\ Respond(AnalysisFailed(e), FALSE, TRUE)
            /\ UNCHANGED attempt
  /\ UNCHANGED <<tempFilePath, blobUrl, geminiFile, processingAttempts, retryCount>>
  /\ SrvFrame

\* earlier version: the delay before attempts 2 and 3, setTimeout(resolve,
\* 1000 * attempt)
DownloadDelayDone ==
  /\ apc = "downloadDelay"
  /\ apc' = "download"
  /\ did' = [did EXCEPT !.downloadDelaysMs = Append(@, 1000 * attempt)]
  /\ UNCHANGED <<tempFilePath, blobUrl, geminiFile, processingAttempts, retryCount,
                 attempt, response>>
  /\ SrvFrame

\* convertHevcToMp4: writeFile(tempInputPath), uploader.upload, fetch(mp4Url)
CloudStepOk ==
  /\ apc \in {"cloudWriteTemp", "cloudUpload", "cloudDownload"}
  /\ apc' = CASE apc = "cloudWriteTemp" -> "cloudUpload"
              [] apc = "cloudUpload" -> "cloudDownload"
              [] apc = "cloudDownload" -> "cloudUnlink"
  /\ did' = CASE apc = "cloudWriteTemp" -> [did EXCEPT !.cloudTempWrites = @ + 1]
              [] apc = "cloudUpload" -> [did EXCEPT !.cloudCalls = @ + 1]
              [] apc = "cloudDownload" ->
                   [did EXCEPT !.cloudCalls = @ + 1, !.validated = "converted"]
  /\ UNCHANGED <<tempFilePath, blobUrl, geminiFile, processingAttempts, retryCount,
                 attempt, response>>
  /\ SrvFrame

\* convertHevcToMp4: one of the three rejects (or the download is not ok);
\* its catch block throws the conversion error, POST's catch block answers
CloudStepFail(e) ==
  /\ apc \in {"cloudWriteTemp", "cloudUpload", "cloudDownload"}
  /\ did' = IF apc = "cloudWriteTemp" THEN did
            ELSE [did EXCEPT !.cloudCalls = @ + 1]
  /\ Respond(AnalysisFailed(ConversionError(e)), FALSE, TRUE)
  /\ UNCHANGED <<tempFilePath, blobUrl, geminiFile, processingAttempts, retryCount,
                 attempt>>
  /\ SrvFrame

\* convertHevcToMp4, clean up: unlink(tempInputPath) then uploader.destroy;
\* a rejection of either is caught and logged, and ends the clean-up
CloudCleanup(ok) ==
  /\ apc \in {"cloudUnlink", "cloudDestroy"}
  /\ did' = [did EXCEPT
               !.cloudUnlinks = IF apc = "cloudUnlink" /\ ok THEN @ + 1 ELSE @,
               !.cloudCalls = IF apc = "cloudDestroy" THEN @ + 1 ELSE @,
               !.cleanupFailed = @ \/ ~ok]
  /\ IF apc = "cloudUnlink" /\ ok
       THEN apc' = "cloudDestroy" /\ UNCHANGED tempFilePath
       ELSE apc' = "writeTemp" /\ tempFilePath' = TRUE
  /\ UNCHANGED <<blobUrl, geminiFile, processingAttempts, retryCount, attempt,
                 response>>
  /\ SrvFrame

\* writeFile(tempFilePath, validatedBuffer)
WriteTempOk ==
  /\ apc = "writeTemp"
  /\ apc' = "geminiUpload"
  /\ did' = [did EXCEPT !.tempWrites = @ + 1]
  /\ UNCHANGED <<tempFilePath, blobUrl, geminiFile, processingAttempts, retryCount,
                 attempt, response>>
  /\ SrvFrame

WriteTempFail(e) ==
  /\ apc = "writeTemp"
  /\ Respond(AnalysisFailed(e), tempFilePath, blobUrl)
  /\ UNCHANGED <<tempFilePath, blobUrl, geminiFile, processingAttempts, retryCount,
                 attempt, did>>
  /\ SrvFrame

\* The wait loop's condition and the two checks after it, on a handle seen
\* in state st: another round, a thrown error, or on to the generation.
\* The earlier version has no attempt counter.
WaitLoop(st) ==
  IF st = "PROCESSING"
     /\ (env.version = "earlier" \/ processingAttempts < MaxProcessingAttempts)
    THEN /\ processingAttempts' =
              IF env.version = "earlier" THEN processingAttempts
              ELSE processingAttempts + 1
         /\ apc' = "procSleep"
         /\ UNCHANGED response
    ELSE /\ UNCHANGED processingAttempts
         /\ IF st = "PROCESSING"
              THEN Respond(AnalysisFailed(ProcessingTooLong), tempFilePath, blobUrl)
              ELSE IF st = "FAILED"
                THEN Respond(AnalysisFailed(ProcessingFailed(env.version)),
                             tempFilePath, blobUrl)
                ELSE apc' = "generate" /\ UNCHANGED response

\* fileManager.uploadFile resolves with a handle in state st
GeminiUploadOk(st) ==
  /\ apc = "geminiUpload"
  /\ geminiFile' = st
  /\ did' = [did EXCEPT !.geminiUploads = @ + 1,
                        !.uploadedAs = IF env.version = "earlier"
                                         THEN MimeTypeOrDefault(req)
                                         ELSE "video/mp4"]
  /\ WaitLoop(st)
  /\ UNCHANGED <<tempFilePath, blobUrl, retryCount, attempt>>
  /\ SrvFrame

GeminiUploadFail(e) ==
  /\ apc = "geminiUpload"
  /\ did' = [did EXCEPT !.geminiUploads = @ + 1]
  /\ Respond(AnalysisFailed(e), tempFilePath, blobUrl)
  /\ UNCHANGED <<tempFilePath, blobUrl, geminiFile, processingAttempts, retryCount,
                 attempt>>
  /\ SrvFrame

\* setTimeout(resolve, 2000) of the wait loop.  The earlier version's loop has
\* no bound of its own: MaxPolls bounds the polls that are explored.
ProcSleepDone ==
  /\ apc = "procSleep"
  /\ did.getFiles < MaxPolls
  /\ apc' = "getFile"
  /\ did' = [did EXCEPT !.waitedMs = @ + ProcessingPollMs]
  /\ UNCHANGED <<tempFilePath, blobUrl, geminiFile, processingAttempts, retryCount,
                 attempt, response>>
  /\ SrvFrame

\* fileManager.getFile resolves with the handle in state st
GetFileOk(st) ==
  /\ apc = "getFile"
  /\ geminiFile' = st
  /\ did' = [did EXCEPT !.getFiles = @ + 1]
  /\ WaitLoop(st)
  /\ UNCHANGED <<tempFilePath, blobUrl, retryCount, attempt>>
  /\ SrvFrame

GetFileFail(e) ==
  /\ apc = "getFile"
  /\ did' = [did EXCEPT !.getFiles = @ + 1]
  /\ Respond(AnalysisFailed(e), tempFilePath, blobUrl)
  /\ UNCHANGED <<tempFilePath, blobUrl, geminiFile, processingAttempts, retryCount,
                 attempt>>
  /\ SrvFrame

\* model.generateContent resolves; the text parses as JSON or it does not
GenerateOk(parses) ==
  /\ apc = "generate"
  /\ did' = [did EXCEPT !.generateCalls = @ + 1, !.lastGenerate = "resolved"]
  /\ IF parses
       THEN apc' = "deleteHandle" /\ UNCHANGED response
       ELSE Respond([status |-> 500,
                     body |-> <<"Failed to parse analysis results">>],
                    tempFilePath, blobUrl)
  /\ UNCHANGED <<tempFilePath, blobUrl, geminiFile, processingAttempts, retryCount,
                 attempt>>
  /\ SrvFrame

\* model.generateContent rejects: the catch block of the retry loop.  The
\* earlier version calls once, outside any loop.
GenerateFail(e) ==
  /\ apc = "generate"
  /\ LET d == [did EXCEPT !.generateCalls = @ + 1,
                          !.lastGenerate = IF e.rateLimited THEN "rateLimited"
                                           ELSE "otherError"]
     IN IF env.version = "current" /\ IsRateLimit(e)
          THEN /\ retryCount' = retryCount + 1
               /\ IF retryCount + 1 < MaxRetries
                    THEN /\ apc' = "backoff"
                         /\ did' = [d EXCEPT
                                      !.backoffMs = Append(@, DelayMs(retryCount + 1))]
                         /\ UNCHANGED response
                    ELSE /\ did' = d
                         /\ Respond(AnalysisFailed(RateLimitExceeded),
                                    tempFilePath, blobUrl)
          ELSE /\ did' = d
               /\ Respond(AnalysisFailed(e), tempFilePath, blobUrl)
               /\ UNCHANGED retryCount
  /\ UNCHANGED <<tempFilePath, blobUrl, geminiFile, processingAttempts, attempt>>
  /\ SrvFrame

\* setTimeout(resolve, delayMs) of the retry loop; continue
BackoffDone ==
  /\ apc = "backoff"
  /\ apc' = "generate"
  /\ UNCHANGED <<tempFilePath, blobUrl, geminiFile, processingAttempts, retryCount,
                 attempt, response, did>>
  /\ SrvFrame

DeleteHandle_FailureEscalates(ok) ==
  /\ apc = "deleteHandle"
  /\ did' = [did EXCEPT !.handleDeletes = @ + 1, !.cleanupFailed = @ \/ ~ok]
  /\ Respond(IF ok THEN AnalysisResponse
             ELSE AnalysisFailed([isError |-> TRUE,
                                  message |-> <<"operation failed">>]),
             tempFilePath, blobUrl)
  /\ UNCHANGED <<tempFilePath, blobUrl, geminiFile, processingAttempts, retryCount,
                 attempt>>
  /\ SrvFrame

\* fileManager.deleteFile(geminiFile.name) in its own try/catch, then
\* return NextResponse.json(analysis)
DeleteHandle(ok) ==
  /\ apc = "deleteHandle"
  /\ did' = [did EXCEPT !.handleDeletes = @ + 1, !.cleanupFailed = @ \/ ~ok]
  /\ Respond(AnalysisResponse, tempFilePath, blobUrl)
  /\ UNCHANGED <<tempFilePath, blobUrl, geminiFile, processingAttempts, retryCount,
                 attempt>>
  /\ SrvFrame

UnlinkTemp_FailureSkipsDel(ok) ==
  /\ apc = "unlink"
  /\ did' = [did EXCEPT !.unlinks = @ + 1, !.cleanupFailed = @ \/ ~ok]
  /\ apc' = IF ok /\ blobUrl THEN "del" ELSE "responded"
  /\ UNCHANGED <<tempFilePath, blobUrl, geminiFile, processingAttempts, retryCount,
                 attempt, response>>
  /\ SrvFrame

\* finally: unlink(tempFilePath) in its own try/catch
UnlinkTemp(ok) ==
  /\ apc = "unlink"
  /\ did' = [did EXCEPT !.unlinks = @ + 1, !.cleanupFailed = @ \/ ~ok]
  /\ apc' = IF blobUrl THEN "del" ELSE "responded"
  /\ UNCHANGED <<tempFilePath, blobUrl, geminiFile, processingAttempts, retryCount,
                 attempt, response>>
  /\ SrvFrame

\* finally: del(blobUrl) in its own try/catch; the response goes out
DelBlob(ok) ==
  /\ apc = "del"
  /\ did' = [did EXCEPT !.blobDeletes = @ + 1, !.cleanupFailed = @ \/ ~ok]
  /\ apc' = "responded"
  /\ UNCHANGED <<tempFilePath, blobUrl, geminiFile, processingAttempts, retryCount,
                 attempt, response>>
  /\ SrvFrame

\* One request: its body, the object behind videoUrl, the environment.  The
\* earlier version reads neither the bytes nor the Cloudinary variables.
Requests ==
  { [parses |-> FALSE, videoUrl |-> FALSE, mimeType |-> ""] }
    \cup [parses : {TRUE}, videoUrl : BOOLEAN, mimeType : MimeTypes]

Environments ==
  [version : {"current"}, gemini : BOOLEAN,
   cloudinary : {CloudinaryVars} \cup
                { CloudinaryVars \ {x} : x \in CloudinaryVars }]
    \cup [version : {"earlier"}, gemini : BOOLEAN, cloudinary : {CloudinaryVars}]

InitAnalyze ==
  /\ ProgramInit
  /\ wasmSupported
  /\ sniffFile = NoFileSelected
  /\ SniffIdle
  /\ InitIdle
  /\ EarlyIdle
  /\ env \in Environments
  /\ req \in Requests
  /\ buf \in IF env.version = "current" THEN Buffers
             ELSE {<<0, 0, 0, 24, 102, 116, 121, 112, 105, 115, 111, 109>>}
  /\ HandlerIdle

NextAnalyze ==
  \/ PostStart
  \/ FetchVideoOk
  \/ \E e \in DownloadFailures : FetchVideoFail(e)
  \/ DownloadDelayDone
  \/ CloudStepOk
  \/ \E e \in ServerThrowables : CloudStepFail(e)
  \/ \E ok \in BOOLEAN : CloudCleanup(ok)
  \/ WriteTempOk
  \/ \E e \in ServerThrowables : WriteTempFail(e)
  \/ \E st \in HandleStates : GeminiUploadOk(st)
  \/ \E e \in ServerThrowables : GeminiUploadFail(e)
  \/ ProcSleepDone
  \/ \E st \in HandleStates : GetFileOk(st)
  \/ \E e \in ServerThrowables : GetFileFail(e)
  \/ \E parses \in BOOLEAN : GenerateOk(parses)
  \/ \E e \in GenerateErrors : GenerateFail(e)
  \/ BackoffDone
  \/ \E ok \in BOOLEAN : DeleteHandle(ok)
  \/ \E ok \in BOOLEAN : UnlinkTemp(ok)
  \/ \E ok \in BOOLEAN : DelBlob(ok)

SpecAnalyze == InitAnalyze /\ [][NextAnalyze]_vars

(***************************************************************************)
(* Properties                                                              *)
(***************************************************************************)

Started(c) == c <= nCalls
Settled(c) == conv[c] \in {"resolved", "rejected", "initFailed"}

\* C1: processVideoFile never rejects.  Whatever fails (no WebAssembly,
\* initFFmpeg throws, fetchFile/writeFile/exec/readFile throws, the deadline
\* fires first) the call resolves, and with the original file; otherwise it
\* resolves with the blob its own detectAndConvertVideo returned.  This is
\* claimed of the current processVideoFile and of the earlier ones.
C1_NeverRejects ==
  /\ early.pc # "rejected"
  /\ \A c \in Calls :
       /\ pvf[c] \in {"idle", "racing", "done"}
       /\ pvf[c] = "done" =>
            \/ result[c] = Original(c)
            \/ conv[c] = "resolved" /\ result[c] = Transcoded(outBlob[c])
       /\ Started(c) /\ ( \/ ~wasmSupported
                          \/ conv[c] \in {"rejected", "initFailed"}
                          \/ timedOut[c] )
            => pvf[c] = "done" /\ result[c] = Original(c)

\* C2: at no time is more than one initialization in flight: the calls that
\* are waiting for the session to load all wait for the load of one and the
\* same FFmpeg instance.
C2_SingleInitialization ==
  Cardinality({inst[c] : c \in {d \in Calls : conv[d] = "load"}}) <= 1

\* C3: the POST to /api/analyze is issued only after a poll of the blob URL
\* answered with a status in 200..299.
C3_AnalyzeOnlyAfterConfirmation ==
  (analyzePosts > 0 \/ jpc = "analyze" \/ state = "complete") =>
    confirmed /\ blobAccessible /\ Len(pollAt) >= 1

\* The object was confirmed on the third poll and the POST went out.
C3_Witness ==
  analyzePosts = 1 /\ jpc = "analyze" /\ Len(pollAt) = 3 /\ confirmed

\* C4: without a 2xx answer the flow issues exactly 30 polls, one second
\* apart, then fails with the availability error and does nothing further:
\* no POST to /api/analyze.
C4_ThirtyPollsThenTimeout ==
  /\ Len(pollAt) <= 30
  /\ \A k \in 1..(Len(pollAt) - 1) : pollAt[k + 1] - pollAt[k] = 1000
  /\ jpc \in {"poll", "sleep"} => Len(pollAt) = i + 1 /\ ~confirmed
  /\ error = AvailabilityError =>
       /\ state = "error"
       /\ Len(pollAt) = 30
       /\ ~confirmed
       /\ analyzePosts = 0
       /\ jpc = "none"
       /\ analysis = "null"
  /\ (state = "error" /\ Len(pollAt) >= 1 /\ ~confirmed) =>
       error = AvailabilityError

\* All 30 polls went unanswered or answered non-2xx; the availability error
\* is shown.
C4_Witness ==
  /\ state = "error"
  /\ error = AvailabilityError
  /\ Len(pollAt) = 30
  /\ pollAt[30] = 29000
  /\ analyzePosts = 0

\* C5: when the deadline fires first, processVideoFile returns the original
\* file, and what an abandoned encode produces afterwards reaches no caller:
\* no call resolves with a blob made by an exec that returned after its
\* caller's deadline.
C5_AbandonedResultNeverDelivered ==
  \A c \in Calls :
    /\ timedOut[c] => pvf[c] = "done" /\ result[c] = Original(c)
    /\ pvf[c] = "done" /\ result[c].kind = "mp4" => ~result[c].data.late

\* C6: transcode calls on one session are serialized.  No two calls on the
\* same instance are between their writeFile and their last deleteFile at the
\* same time, and no call reads an output.mp4 that another call's exec wrote.
InScratchSection(c) == conv[c] \in {"exec", "read", "delIn", "delOut"}

C6_Serialized ==
  /\ \A a, b \in Calls :
       a # b /\ inst[a] = inst[b] /\ InScratchSection(a) => ~InScratchSection(b)
  /\ \A c \in Calls : outBlob[c] # NoData => outBlob[c].by = c

\* C7: without WebAssembly support processVideoFile returns the original
\* file and never touches the transcoder session: no initFFmpeg, no
\* instance, no scratch file operation.
C7_NoWasmNoSession ==
  ~wasmSupported =>
    /\ nInstances = 0 /\ ffmpeg = 0 /\ ~ffmpegInitialized
    /\ fs = [k \in Calls |-> EmptyFs]
    /\ \A c \in Calls :
         /\ conv[c] = "none" /\ inst[c] = 0
         /\ ~wrote[c] /\ delTried[c] = {} /\ outBlob[c] = NoData
         /\ Started(c) => pvf[c] = "done" /\ result[c] = Original(c)

\* Two calls were made in an environment without WebAssembly.
C7_Witness ==
  ~wasmSupported /\ nCalls = 2 /\ pvf[1] = "done" /\ pvf[2] = "done"

\* C8: a failed initialization leaves the session as it was, never
\* half-ready: ffmpeg is set exactly when ffmpegInitialized is, while no load
\* has succeeded the session is uninitialized, the failing step changes
\* neither global, and a call constructs at most one instance (no retry
\* inside the call).
C8_SessionConsistent ==
  /\ ffmpegInitialized <=> ffmpeg # 0
  /\ (\A c \in Calls : conv[c] \in {"none", "load", "initFailed"}) =>
       ffmpeg = 0 /\ ~ffmpegInitialized
  /\ nInstances <= nCalls
  /\ \A c \in Calls : conv[c] = "initFailed" => inst[c] # ffmpeg /\ ~wrote[c]

C8_FailedInitLeavesSession ==
  /\ []C8_SessionConsistent
  /\ [][\A c \in Calls :
          conv[c] = "load" /\ conv'[c] = "initFailed" =>
            /\ ffmpeg' = ffmpeg
            /\ ffmpegInitialized' = ffmpegInitialized
            /\ nInstances' = nInstances]_vars

\* One call's initialization failed; another call constructed a newer
\* instance and its initialization succeeded.
C8_Witness ==
  \E a, b \in Calls :
    /\ conv[a] = "initFailed"
    /\ inst[b] > inst[a]
    /\ ffmpegInitialized /\ ffmpeg = inst[b]
    /\ conv[b] = "resolved"

\* C9: once ready the session stays ready with the same instance: the
\* instance a later initFFmpeg call returns (the global ffmpeg) never
\* changes, no further instance is constructed, ffmpegInitialized never
\* goes back to false and implies ffmpeg non-null.
C9_ReadyForGood ==
  /\ [](ffmpegInitialized => ffmpeg # 0)
  /\ [][ffmpegInitialized =>
          /\ ffmpegInitialized'
          /\ ffmpeg' = ffmpeg
          /\ nInstances' = nInstances]_vars

\* C10: every finished detectAndConvertVideo call that wrote a scratch file
\* has attempted to delete both the input and the output scratch file,
\* whether it resolved or rejected.
C10_DeleteAlwaysAttempted ==
  \A c \in Calls :
    Settled(c) /\ wrote[c] => delTried[c] = {"in", "out"}

\* C11: once writeFile, exec and readFile have succeeded, the call resolves
\* with the output blob it built, also when deleteFile of the input or of the
\* output scratch file fails: from the cleanup it never goes to a rejection,
\* and the race of its caller, if still open, gets that blob.
C11_CleanupFailureStillResolves ==
  \A c \in Calls :
    /\ delTried[c] # {} =>
         /\ conv[c] \in {"delIn", "delOut", "resolved"}
         /\ outBlob[c] # NoData
    /\ (conv[c] = "resolved" /\ ~timedOut[c]) =>
         pvf[c] = "done" /\ result[c] = Transcoded(outBlob[c])

\* deleteFile(inputName) failed (the input scratch file is still there and
\* the second delete was never issued) and the call resolved with its blob.
C11_Witness ==
  \E c \in Calls :
    /\ conv[c] = "resolved"
    /\ delTried[c] = {"in"}
    /\ fs[inst[c]][InputName(file[c])] # NoData
    /\ result[c] = Transcoded(outBlob[c])

\* QuickTime-family extension and MIME type, and the plain MP4 pairing.
HasQuickTimeExtension(f) ==
  Len(f.name) >= 2 /\ ToLowerCase(f.name[Len(f.name)]) \in {"mov", "qt"}
HasQuickTimeMime(f) == f.type = <<"video", "quicktime">>
IsPlainMp4(f) ==
  /\ Len(f.name) >= 2 /\ ToLowerCase(f.name[Len(f.name)]) = "mp4"
  /\ f.type = <<"video", "mp4">>

\* C12: isLikelyHevc returns true for every file with a QuickTime-family
\* extension or a QuickTime-family declared MIME type, and false for every
\* file with an .mp4 extension and MIME type video/mp4.
C12_QuickTimeIsIncompatible ==
  nSniffs > 0 =>
    /\ (HasQuickTimeExtension(sniffFile) \/ HasQuickTimeMime(sniffFile))
         => verdict = TRUE
    /\ IsPlainMp4(sniffFile) => verdict = FALSE

\* None of the incompatibility rules applies to the sniffed file.
C13_NoRuleMatches ==
  /\ ~HasQuickTimeExtension(sniffFile)
  /\ ~(Len(sniffFile.name) >= 2
         /\ ToLowerCase(sniffFile.name[Len(sniffFile.name)]) = "heic")
  /\ ~HasQuickTimeMime(sniffFile)
  /\ ~(sniffFile.type = <<"video", "mp4">> /\ HasQuickTimeExtension(sniffFile))

\* C13: the verdict of isLikelyHevc depends only on the name and the MIME
\* type of the file: a call on a file with the same name and type as the
\* file of the call before it, whatever the two sizes and however many calls
\* were made, returns the same verdict; and for every name and type, empty
\* and contradictory ones included, the verdict is false (compatible)
\* whenever the extension is no problematic one, the MIME type is not
\* QuickTime and no MP4 MIME type comes with a QuickTime extension.
C13_TotalAndOptimistic ==
  /\ []((nSniffs > 0 /\ C13_NoRuleMatches) => verdict = FALSE)
  /\ [][(/\ nSniffs > 0
          /\ nSniffs' # nSniffs
          /\ sniffFile'.name = sniffFile.name
          /\ sniffFile'.type = sniffFile.type) => verdict' = verdict]_vars

\* A file with neither name nor type was sniffed in the second call and is
\* compatible.
C13_Witness ==
  /\ sniffFile.name = <<"">> /\ sniffFile.type = <<>>
  /\ sniffFile.size = 62914560
  /\ nSniffs = 2 /\ verdict = FALSE

\* C14: no byte of an asset goes to object storage unless its declared
\* content type is on the allow-list and its size is at most 50 MB: an
\* upload outside these limits is refused before the transfer, and a file
\* the page finds too large or not a video never starts a journey.
C14_NoTransferOutsideLimits ==
  /\ bytesSent =>
       /\ processedFile.type \in
            { <<"video", "mp4">>, <<"video", "quicktime">>,
              <<"video", "webm">>, <<"video", "mov">>, <<"video", "x-m4v">> }
       /\ processedFile.size <= MaxUploadBytes
  /\ \A c \in Calls :
       Started(c) => file[c].size <= MaxUploadBytes /\ file[c].type[1] = "video"

\* A transcoded blob of 60 MB was authorized, refused by the store and the
\* journey failed without a byte sent.
C14_Witness ==
  /\ state = "error" /\ error = "operation failed"
  /\ token = OnBeforeGenerateToken
  /\ processedFile.size = 62914560
  /\ ~bytesSent

\* C15: a .mov file declared video/quicktime whose transcode succeeded is
\* returned as a video/mp4 blob under the filename swing-<timestamp>.mp4.
C15_TranscodedAssetIsMp4 ==
  \A c \in Calls :
    ( /\ pvf[c] = "done"
      /\ file[c].name[Len(file[c].name)] = "mov"
      /\ file[c].type = <<"video", "quicktime">>
      /\ conv[c] = "resolved" /\ ~timedOut[c] ) =>
        /\ result[c].kind = "mp4"
        /\ Filename(file[c]) = <<"swing-<timestamp>", "mp4">>

\* C16: a failure on the upload path is never swallowed.  When upload()
\* rejects or no poll confirms the object, the journey ends in the error
\* state with a message and without a POST to /api/analyze; a POST goes out
\* only for an asset that was transferred; upload() is called at most once
\* per journey.
C16_UploadFailureIsFatal ==
  /\ uploads <= 1
  /\ analyzePosts > 0 => bytesSent /\ confirmed
  /\ error = AvailabilityError =>
       /\ state = "error" /\ jpc = "none"
       /\ analyzePosts = 0 /\ analysis = "null"
       /\ uploads = 1
  /\ (uploads = 1 /\ jpc = "none" /\ analyzePosts = 0) =>
       /\ state = "error" /\ error # "null"
       /\ analysis = "null"

\* The token was issued, the transfer failed, and the journey is in the
\* error state with no poll and no POST made.
C16_Witness ==
  /\ state = "error" /\ error = "operation failed"
  /\ token = OnBeforeGenerateToken
  /\ uploads = 1 /\ pollAt = <<>> /\ analyzePosts = 0

\* The moves of a journey from one await to the next.
C17_Steps ==
  { <<"none", "process">>, <<"process", "upload">>, <<"upload", "transfer">>,
    <<"transfer", "poll">>, <<"poll", "sleep">>, <<"sleep", "poll">>,
    <<"poll", "analyze">>, <<"upload", "none">>, <<"transfer", "none">>,
    <<"sleep", "none">>, <<"analyze", "none">> }

\* What has been completed at each await of a journey.
C17_StageState ==
  /\ jpc # "none" => nSniffs > 0
  /\ jpc \in {"upload", "transfer", "poll", "sleep", "analyze"} =>
       pvf[cur] = "done" /\ processedFile # NoFileSelected
  /\ jpc = "transfer" => token # NoToken
  /\ jpc \in {"poll", "sleep", "analyze"} => bytesSent
  /\ jpc = "analyze" => confirmed /\ analyzePosts = 1
  /\ jpc \in {"process", "upload", "transfer"} =>
       ~bytesSent /\ pollAt = <<>> /\ analyzePosts = 0

\* C17: within a journey the stages run strictly in the order sniff,
\* normalize, upload, confirm, notify analysis: a journey that is normalizing
\* or further on has had a sniffer verdict computed for its file, each later
\* stage starts only after the previous one has finished, and none is
\* skipped.
C17_SniffThenNormalize ==
  /\ []C17_StageState
  /\ [][jpc' # jpc => <<jpc, jpc'>> \in C17_Steps]_vars

\* C18: whatever fetchFile, writeFile, exec or readFile throws, the call
\* rejects with one error whose message is "Failed to convert video: "
\* followed by the text of what was thrown.
C18_WrappedWithCause ==
  \A c \in Calls :
    conv[c] = "rejected" =>
      err[c].message = "Failed to convert video: " \o err[c].thrown.text

\* C19: a failed initFFmpeg call throws one wrapped initialization error
\* that carries the cause, "Failed to initialize video processing: " followed
\* by the text of what the failing step threw, in the blob-URL and in the
\* direct-URL variant alike.
C19_InitErrorWrapped ==
  \A v \in Variants : \A n \in 1..Len(ret[v]) :
    ret[v][n].kind = "threw" =>
      /\ ret[v][n].error.isError
      /\ ret[v][n].error.text =
           "Failed to initialize video processing: " \o
             ret[v][n].cause.thrown.text

\* C20: to callers of initFFmpeg the two variants behave alike: after the
\* same sequence of load outcomes the module globals are the same, and call
\* by call both returned the same instance or both threw the same error.
C20_VariantsEquivalent ==
  /\ sess["blobURL"] = sess["directURL"]
  /\ Len(ret["blobURL"]) = Len(ret["directURL"])
  /\ \A n \in 1..Len(ret["blobURL"]) :
       /\ ret["blobURL"][n].kind = ret["directURL"][n].kind
       /\ ret["blobURL"][n].instance = ret["directURL"][n].instance
       /\ ret["blobURL"][n].error = ret["directURL"][n].error

\* C21: a transcode call writes no scratch file before its own initFFmpeg
\* call has returned a ready session: a call that is at or past writeFile
\* holds an instance whose load() has resolved, the write that marks a call
\* as having written is taken from the await of writeFile only, and only
\* loaded instances have anything in their filesystem.
C21_WriteAfterAcquire ==
  /\ [](\A c \in Calls :
          (wrote[c] \/ conv[c] \in {"write", "exec", "read", "delIn", "delOut",
                                    "resolved", "rejected"}) =>
            inst[c] # 0 /\ inst[c] \in loaded)
  /\ [](\A k \in Calls : fs[k] # EmptyFs => k \in loaded)
  /\ [][\A c \in Calls :
          (wrote'[c] /\ ~wrote[c]) => conv[c] = "write" /\ inst[c] \in loaded]_vars

\* The second call started while the first was still loading, loaded its own
\* instance and has written its input there.
C21_Witness ==
  \E a, b \in Calls :
    /\ a # b /\ conv[a] = "load"
    /\ wrote[b] /\ inst[b] \in loaded /\ inst[b] # inst[a]
    /\ fs[inst[b]][InputName(file[b])] # NoData

\* Polls of the handle made so far, counting the one being awaited
C22_Polls == did.getFiles + (IF apc = "getFile" THEN 1 ELSE 0)

\* C22: the analyze endpoint never calls generateContent on a handle that is
\* PROCESSING or FAILED, and its wait is bounded: at most 60 getFile polls,
\* each after a 2000 ms pause, and a handle still PROCESSING after the last
\* poll fails the request.
C22_BoundedWait ==
  /\ (apc \in {"generate", "backoff"} \/ did.generateCalls > 0) =>
       geminiFile \notin {"none", "PROCESSING", "FAILED"}
  /\ C22_Polls <= MaxProcessingAttempts
  /\ did.waitedMs = ProcessingPollMs * C22_Polls
  /\ (did.getFiles = MaxProcessingAttempts /\ geminiFile = "PROCESSING") =>
       /\ response.status = 500
       /\ apc \in {"unlink", "del", "responded"}

\* The handler has left its try block: only the finally block is left
C23_InFinally == apc \in {"unlink", "del", "responded"}

\* C23: the current analyze endpoint retries a rate-limited generateContent
\* after 2000 ms and then 4000 ms, calls it at most 3 times per request,
\* answers with the rate-limit-exceeded error when the third call is rate
\* limited too, and answers with a failure at once, without another call,
\* when a call fails for another reason.
C23_BoundedRetry ==
  env.version = "current" =>
    /\ did.generateCalls <= MaxRetries
    /\ Len(did.backoffMs) <= MaxRetries - 1
    /\ \A k \in 1..Len(did.backoffMs) : did.backoffMs[k] = (2 ^ k) * 1000
    /\ (did.lastGenerate = "rateLimited" /\ did.generateCalls < MaxRetries) =>
         /\ apc \in {"backoff", "generate"}
         /\ Len(did.backoffMs) = did.generateCalls
         /\ response = NoResponse
    /\ (did.lastGenerate = "rateLimited" /\ did.generateCalls = MaxRetries) =>
         /\ C23_InFinally
         /\ response = AnalysisFailed(RateLimitExceeded)
    /\ did.lastGenerate = "otherError" =>
         /\ C23_InFinally
         /\ response.status = 500
         /\ response # AnalysisFailed(RateLimitExceeded)
         /\ Len(did.backoffMs) = did.generateCalls - 1

\* Three rate-limited calls, two pauses, then the fatal error.
C23_Witness ==
  /\ env.version = "current"
  /\ apc = "responded"
  /\ did.generateCalls = MaxRetries
  /\ did.lastGenerate = "rateLimited"
  /\ did.backoffMs = <<2000, 4000>>
  /\ response = AnalysisFailed(RateLimitExceeded)

\* C24: a request for which uploadFile returned a handle has called
\* deleteFile on it by the time it responds, whatever the exit path.
C24_HandleAlwaysDeleted ==
  (apc = "responded" /\ geminiFile # "none") => did.handleDeletes > 0

\* What C25 requires of a request that has been answered
C25_Cleaned ==
  apc = "responded" =>
    /\ (req.parses /\ req.videoUrl) => did.blobDeletes = 1
    /\ did.tempWrites > 0 => did.unlinks = 1
    /\ ~req.videoUrl =>
         did.blobDeletes = 0 /\ did.unlinks = 0 /\ did.handleDeletes = 0

\* C25: a request with a videoUrl is answered only after one del(blobUrl)
\* attempt, which is its last step, and after one unlink(tempFilePath)
\* attempt if writeFile(tempFilePath) succeeded, on every exit path; a request
\* without videoUrl deletes nothing.
C25_BlobAndTempDeleted ==
  /\ []C25_Cleaned
  /\ [][(apc # "responded" /\ apc' = "responded" /\ req.parses /\ req.videoUrl) =>
          (apc = "del" /\ did'.blobDeletes = did.blobDeletes + 1)]_vars

\* A request that failed after its temp file was written: both deleted.
C25_Witness ==
  /\ apc = "responded"
  /\ response.status = 500
  /\ did.tempWrites = 1
  /\ did.unlinks = 1
  /\ did.blobDeletes = 1

\* A cleanup step, whether it succeeds or fails: the response after it is
\* fixed by the state before it, and the handler goes on.
C26_CleanupStep ==
  /\ apc = "deleteHandle" =>
       response' = AnalysisResponse /\ apc' \in {"unlink", "del"}
  /\ apc = "unlink" => response' = response /\ apc' = "del"
  /\ apc = "del" => response' = response /\ apc' = "responded"
  /\ apc = "cloudUnlink" =>
       response' = response /\ apc' \in {"cloudDestroy", "writeTemp"}
  /\ apc = "cloudDestroy" => response' = response /\ apc' = "writeTemp"

\* C26: in the analyze endpoint a failed cleanup step (deleteFile on the
\* handle, unlink of the temp file, del of the blob, unlink and destroy of the
\* Cloudinary resources) never changes the response: status and body are
\* what they are when the step succeeds, and a request that tried to delete
\* its handle answers with the analysis whether the delete worked or not.
C26_CleanupNeverEscalates ==
  /\ [][C26_CleanupStep]_vars
  /\ [](did.handleDeletes > 0 => response = AnalysisResponse)

\* A request answered with the analysis although a cleanup step failed.
C26_Witness ==
  /\ apc = "responded"
  /\ did.cleanupFailed
  /\ did.handleDeletes = 1
  /\ response = AnalysisResponse

\* The buffer has been handed to the Cloudinary steps of convertHevcToMp4
C27_SentToCloud ==
  \/ apc \in {"cloudWriteTemp", "cloudUpload", "cloudDownload", "cloudUnlink",
              "cloudDestroy"}
  \/ did.cloudTempWrites > 0
  \/ did.cloudCalls > 0

\* C27: a buffer goes to the Cloudinary conversion only if
\* detectCodecFromBuffer reports a MOV container for it, and never if it
\* reports an MP4 container.
C27_FallbackOnlyOnSignature ==
  C27_SentToCloud =>
    /\ IsMOVContainer(DetectCodecFromBuffer(buf).details)
    /\ DetectCodecFromBuffer(buf).codec # "h264"

\* One of the three Cloudinary variables is not set
C28_CredentialMissing == \E x \in CloudinaryVars : x \notin env.cloudinary

\* validateAndPrepareVideo calls convertHevcToMp4 for this request
C28_AsksForConversion ==
  /\ env.version = "current"
  /\ ValidateAndPrepareVideo(buf, MimeTypeOrDefault(req)) = "convert"

\* The step in which the download resolves: without the credentials it
\* either is a failed download or hands the original buffer to writeFile
C28_PassthroughStep ==
  (apc = "download" /\ C28_AsksForConversion /\ C28_CredentialMissing) =>
    \/ \E e \in DownloadFailures : response' = AnalysisFailed(e)
    \/ /\ apc' = "writeTemp"
       /\ did'.validated = "original"
       /\ response' = NoResponse

\* No Cloudinary step is pending or done, and no temp input file was written
C28_NoCloudinaryUse ==
  C28_CredentialMissing =>
    /\ apc \notin {"cloudWriteTemp", "cloudUpload", "cloudDownload", "cloudUnlink",
                   "cloudDestroy"}
    /\ did.cloudTempWrites = 0
    /\ did.cloudCalls = 0
    /\ did.cloudUnlinks = 0
    /\ did.validated # "converted"
    /\ \A e \in ServerThrowables : response # AnalysisFailed(ConversionError(e))

\* C28: when one of CLOUDINARY_CLOUD_NAME, CLOUDINARY_API_KEY and
\* CLOUDINARY_API_SECRET is missing, convertHevcToMp4 gives back the buffer
\* it was given, calls nothing of Cloudinary, writes no temp input file and
\* throws nothing.
C28_PassthroughWithoutCredentials ==
  /\ []C28_NoCloudinaryUse
  /\ [][C28_PassthroughStep]_vars

\* A QuickTime request analysed from the original bytes, one credential
\* missing.
C28_Witness ==
  /\ C28_AsksForConversion
  /\ C28_CredentialMissing
  /\ env.cloudinary # {}
  /\ did.validated = "original"
  /\ did.geminiUploads = 1
  /\ apc = "responded"
  /\ response = AnalysisResponse

\* C29: a request with a videoUrl that arrives while GEMINI_API_KEY is not
\* set is answered 500 "API key not configured", and the handler downloads
\* nothing, writes no temp file, and calls neither Cloudinary nor Gemini.
C29_MissingKeyIsFatal ==
  (~env.gemini /\ req.parses /\ req.videoUrl) =>
    /\ did.downloads = 0
    /\ did.tempWrites = 0
    /\ did.cloudTempWrites = 0
    /\ did.cloudCalls = 0
    /\ did.geminiUploads = 0
    /\ did.getFiles = 0
    /\ did.generateCalls = 0
    /\ did.handleDeletes = 0
    /\ geminiFile = "none"
    /\ apc \in {"idle", "del", "responded"}
    /\ apc # "idle" =>
         response = [status |-> 500, body |-> <<"API key not configured">>]

\* The configuration error has gone out, after the blob was deleted.
C29_Witness ==
  /\ ~env.gemini
  /\ req.videoUrl
  /\ apc = "responded"
  /\ response = [status |-> 500, body |-> <<"API key not configured">>]
  /\ did.blobDeletes = 1

\* C30: whenever detectAndConvertVideo resolves in time, what it hands back
\* is a video/mp4 blob (kind "mp4"), for a .mov, .mp4 or .webm input of any
\* declared type and just as well for a second call on the File built from
\* the first call's output.
C30_RoundTripIsMp4 ==
  \A c \in Calls :
    (conv[c] = "resolved" /\ ~timedOut[c]) =>
      /\ pvf[c] = "done"
      /\ result[c].data = outBlob[c]
      /\ result[c].kind = "mp4"

\* The second call ran on the first call's output and produced MP4 again.
C30_Witness ==
  /\ nCalls = 2
  /\ result[1].kind = "mp4"
  /\ \E size \in TranscodedSizes : file[2] = ProcessedFile(file[1], size)
  /\ file[2].type = <<"video", "mp4">>
  /\ conv[2] = "resolved"
  /\ result[2].kind = "mp4"

\* C31: a processVideoFile call that is waiting on its race settles, however
\* long load or exec stay pending; it is never still waiting once its timer
\* has fired, and what it resolves with then is the original file.
C31_SettlesByDeadline ==
  /\ \A c \in Calls : (pvf[c] = "racing") ~> (pvf[c] = "done")
  /\ [](\A c \in Calls :
          timedOut[c] => pvf[c] = "done" /\ result[c] = Original(c))

\* The timer fired while load() was still pending.
C31_Witness ==
  \E c \in Calls :
    /\ wasmSupported
    /\ timedOut[c]
    /\ conv[c] = "load"
    /\ pvf[c] = "done"
    /\ result[c] = Original(c)

\* A poll settles, or the pause after a failed poll ends
C32_PollStep ==
  /\ (jpc = "poll" /\ jpc' # "poll") =>
       IF confirmed'
         THEN /\ blobAccessible'
              /\ jpc' = "analyze"
              /\ pollAt' = pollAt
         ELSE /\ jpc' = "sleep"
              /\ ~blobAccessible'
              /\ state' = state
              /\ error' = error
              /\ pollAt' = pollAt
  /\ (jpc = "sleep" /\ jpc' # "sleep") =>
       /\ clock' = clock + 1000
       /\ IF Len(pollAt) < 30
            THEN jpc' = "poll" /\ Len(pollAt') = Len(pollAt) + 1
            ELSE state' = "error" /\ error' = AvailabilityError

\* C32: in the availability poll a 2xx answer confirms the object and ends
\* the polling at once; any other answer and a thrown fetch are each one
\* failed attempt followed by a pause of 1000 ms, and the loop gives up only
\* after its 30th attempt.
C32_PollLoop ==
  /\ [][C32_PollStep]_vars
  /\ [](confirmed => jpc \notin {"poll", "sleep"})
  /\ [](jpc \in {"poll", "sleep"} => clock = 1000 * (Len(pollAt) - 1))
  /\ [](error = AvailabilityError => Len(pollAt) = 30)

\* Four failed attempts, then the fifth poll is answered 2xx.
C32_Witness ==
  /\ confirmed
  /\ Len(pollAt) = 5
  /\ clock = 4000
  /\ jpc = "analyze"
  /\ state = "analyzing"

\* C33: the pauses between rate-limited generateContent attempts are 2000,
\* 4000 and 8000 ms, in this order: every pause made is the next of the
\* three, and a request that gives up on the rate limit has made all three.
C33_BackoffSequence ==
  env.version = "current" =>
    /\ \A k \in 1..Len(did.backoffMs) : did.backoffMs[k] = <<2000, 4000, 8000>>[k]
    /\ response = AnalysisFailed(RateLimitExceeded) =>
         did.backoffMs = <<2000, 4000, 8000>>

C34_RejectionMessages == {"Please upload a video file", "Video must be under 50MB"}

\* The step in which handleFileSelect shows a rejection message changes
\* nothing else of the page and starts nothing
C34_RejectionStep ==
  (error' \in C34_RejectionMessages /\ error' # error) =>
    /\ state = "idle"
    /\ UNCHANGED <<state, analysis, videoPreview, cur, jpc, analyzePosts, uploads,
                   processedFile, bytesSent, pollAt>>
    /\ UNCHANGED procVars

\* C34: handleFileSelect turns away a file whose type does not start with
\* "video/" or that is larger than 50 MB by showing a message and nothing
\* else: the page stays idle without a preview, and no file of that kind is
\* ever handed to processVideoFile, uploaded or analysed.
C34_RejectedBeforeProcessing ==
  /\ [][C34_RejectionStep]_vars
  /\ [](error \in C34_RejectionMessages =>
          /\ state = "idle"
          /\ videoPreview = 0
          /\ jpc = "none"
          /\ uploads = 0
          /\ analyzePosts = 0)
  /\ [](\A c \in 1..nCalls :
          /\ Len(file[c].type) >= 1
          /\ file[c].type[1] = "video"
          /\ file[c].size <= 50 * 1024 * 1024)

\* The 50 MB + 1 byte video was turned away before anything was started.
C34_Witness ==
  /\ error = "Video must be under 50MB"
  /\ state = "idle"
  /\ nCalls = 0
  /\ videoPreview = 0
  /\ nInstances = 0

\* The declared types a file with these first bytes may honestly carry
C35_TypesOf(b) ==
  IF b = <<0, 0, 0, 24, 102, 116, 121, 112, 105, 115, 111, 109>>
    THEN {"video/mp4", "video/x-m4v"}
  ELSE IF b = <<0, 0, 0, 20, 102, 116, 121, 112, 113, 116, 32, 32>>
          \/ b = <<0, 0, 0, 1, 109, 100, 97, 116, 0, 0, 0, 0>>
    THEN {"video/quicktime", "video/mov"}
  ELSE IF b = <<26, 69, 223, 163, 1, 0, 0, 0, 0, 0, 0, 31>>
    THEN {"video/webm"}
  ELSE {}

\* C35: an original file of a type on the upload allow-list, posted to the
\* analyze endpoint with its own type, is never answered with the
\* unexpected-video-format error.
C35_AllowedTypesAccepted ==
  (/\ env.version = "current"
   /\ \E t \in AllowedContentTypes : req.mimeType = t[1] \o "/" \o t[2]
   /\ req.mimeType \in C35_TypesOf(buf)) =>
    response #
      AnalysisFailed(UnexpectedFormat(DetectCodecFromBuffer(buf).details))

\* C36: the File handed to upload(), whose type the authorizer's allow-list
\* is applied to, carries the type of its bytes: video/mp4 for a transcoded
\* blob, the original file's own type when processVideoFile passed the
\* original through.
C36_DeclaredTypeIsActualType ==
  (cur # 0 /\ processedFile # NoFileSelected) =>
    processedFile.type =
      (IF result[cur].kind = "orig" THEN file[cur].type ELSE <<"video", "mp4">>)

\* A handleFileSelect run is between its first await and its last line
C37_InFlight == jpc # "none"

\* A run is in flight exactly in the states uploading and analyzing, and it
\* is the run started last
C37_OneJourney ==
  /\ C37_InFlight <=> state \in {"uploading", "analyzing"}
  /\ C37_InFlight => cur = nCalls /\ cur # 0
  /\ ~C37_InFlight => cur = 0

\* Runs start in idle with none in flight; the page goes back to idle only
\* from complete or error; analysis and error are written by the run in
\* flight, by a start or by reset; a step of the processVideoFile call of an
\* earlier journey writes nothing of the page
C37_Steps ==
  /\ nCalls' # nCalls => state = "idle" /\ ~C37_InFlight
  /\ (state' = "idle" /\ state # "idle") =>
       state \in {"complete", "error"} /\ ~C37_InFlight
  /\ ((analysis' # analysis \/ error' # error) /\ state' # "idle") =>
       (C37_InFlight \/ nCalls' # nCalls) /\ cur' \in {0, nCalls'}
  /\ \A c \in Calls :
       (c < nCalls /\ (conv'[c] # conv[c] \/ pvf'[c] # pvf[c]
                         \/ result'[c] # result[c])) =>
         UNCHANGED <<state, analysis, error, videoPreview, cur, jpc>>

\* C37: at most one handleFileSelect run is in flight in the page: a run
\* starts only in the idle state, reset happens only in complete or error,
\* so state, analysis and error are only ever written by the latest run,
\* never by what an earlier journey left running.
C37_SingleJourney ==
  /\ []C37_OneJourney
  /\ [][C37_Steps]_vars

\* The second journey is in flight, past its upload, while the transcode
\* that the first journey abandoned at its deadline is still running.
C37_Witness ==
  /\ nCalls = 2
  /\ cur = 2
  /\ state = "analyzing"
  /\ timedOut[1]
  /\ conv[1] \in {"write", "exec", "read"}

\* C38: a journey that entered uploading reaches complete or error, given
\* that every call it awaits settles; complete is shown only with an
\* analysis stored, error only with a message stored.
C38_JourneyTerminates ==
  /\ (state = "uploading") ~> (state \in {"complete", "error"})
  /\ [](state = "complete" => analysis # "null" /\ jpc = "none")
  /\ [](state = "error" => error # "null" /\ jpc = "none")

\* C39: in the earlier version of /api/analyze, which retries the download,
\* the video URL is fetched at most 3 times, the pause before attempt k > 1
\* lasts k seconds, a download that succeeds is the last fetch, and when all
\* three attempts fail the answer is 500 "Analysis failed: ..." and nothing
\* is uploaded to the analysis service.
C39_RetryingDownload ==
  env.version = "earlier" =>
    /\ did.downloads <= 3
    /\ \A k \in 1..Len(did.downloadDelaysMs) :
         did.downloadDelaysMs[k] = 1000 * (k + 1)
    /\ Len(did.downloadDelaysMs) =
         (IF apc = "download" \/ did.downloads = 0 THEN did.downloads
          ELSE did.downloads - 1)
    /\ did.validated = "original" => apc \notin {"download", "downloadDelay"}
    /\ (did.downloads = 3 /\ did.validated = "none") =>
         /\ response.status = 500
         /\ response.body[1] = "Analysis failed: "
         /\ did.geminiUploads = 0
         /\ did.tempWrites = 0

C39_Witness ==
  /\ env.version = "earlier"
  /\ did.downloads = 3
  /\ did.downloadDelaysMs = <<2000, 3000>>
  /\ did.validated = "none"
  /\ response.status = 500
  /\ did.geminiUploads = 0
  /\ apc = "responded"

====
